---- MODULE Spec2Model ----
(***************************************************************************)
(* Gmail-GEN: aggregation and dispatch of daily payment notifications.     *)
(* Model of backend-terracanada/src/services/GmailGenService.ts: the       *)
(* eligibility query obtenerPagosDirectos, and enviarCorreoProveedor as    *)
(* the asynchronous steps it is made of (query, webhook call, webhook      *)
(* response, registrar_envio_correo_con_detalles, return).                 *)
(***************************************************************************)
EXTENDS Integers, Sequences, FiniteSets, TLC

(***************************************************************************)
(* Bounds of the model.                                                    *)
(***************************************************************************)
\* Number of enviarCorreoProveedor invocations that may be in flight.
MaxIntentos == 2

Intentos == 1..MaxIntentos

(***************************************************************************)
(* Tables pagos and proveedores: a catalogue of rows.  Amounts are in      *)
(* cents; codigo is a sequence of characters (NULL is modelled as the      *)
(* empty code, which String(p.codigo || '') makes of it).                  *)
(***************************************************************************)
Hoy == "2024-05-01"
Ayer == "2024-04-30"

\* Providers 1 and 3 carry the same nombre: the column is not the key of the
\* table.
Proveedores ==
  [ p \in {1, 2, 3, 4} |->
      CASE p = 1 -> [id |-> 1, nombre |-> "Alfa", correo |-> "alfa@x"]
        [] p = 2 -> [id |-> 2, nombre |-> "Beta", correo |-> "beta@x"]
        [] p = 3 -> [id |-> 3, nombre |-> "Alfa", correo |-> "alfa2@x"]
        [] p = 4 -> [id |-> 4, nombre |-> "Gama", correo |-> "gama@x"] ]

Pago(id, u, p, est, act, f, cod, m) ==
  [id_pago |-> id, usuario_id |-> u, proveedor_id |-> p, estado |-> est,
   esta_activo |-> act, fecha_pago |-> f, codigo |-> cod, monto |-> m,
   cliente |-> "c"]

BANCO1 == <<"B", "A", "N", "C", "O", "-", "1">>
TARJ1 == <<"T", "A", "R", "J", "-", "1">>
banco7 == <<"b", "a", "n", "c", "o", "-", "7">>

CatalogoPagos ==
  [ i \in 1..10 |->
      CASE i = 1 -> Pago(1, 1, 1, "PAGADO", TRUE, Hoy, BANCO1, 1000)
        [] i = 2 -> Pago(2, 1, 1, "PAGADO", TRUE, Hoy, TARJ1, 1550)
        [] i = 3 -> Pago(3, 1, 2, "PAGADO", TRUE, Hoy, <<>>, 700)
        [] i = 4 -> Pago(4, 2, 1, "PAGADO", TRUE, Hoy, banco7, 300)
        [] i = 5 -> Pago(5, 1, 1, "PENDIENTE", TRUE, Hoy, TARJ1, 100)
        [] i = 6 -> Pago(6, 1, 1, "PAGADO", FALSE, Hoy, TARJ1, 200)
        [] i = 7 -> Pago(7, 1, 1, "PAGADO", TRUE, Ayer, TARJ1, 400)
        [] i = 8 -> Pago(8, 1, 2, "PAGADO", TRUE, Hoy, BANCO1, 900)
        [] i = 9 -> Pago(9, 1, 3, "PAGADO", TRUE, Hoy, TARJ1, 500)
        [] i = 10 -> Pago(10, 1, 4, "PAGADO", TRUE, Hoy, TARJ1, 250) ]

\* Column esta_verificado of pagos: the ids of the verified rows.
Verificados == {1, 4, 8}

\* Rows present when the service starts, and rows inserted later by the
\* payment flows.
PagosIniciales == 1..7
PagosNuevos == {8}

(***************************************************************************)
(* Requests: the arguments of enviarCorreoProveedor.  fecha "" is the      *)
(* absent date, proveedorId 0 the absent (falsy) provider id.              *)
(***************************************************************************)
Solicitud(u, p, f) == [usuarioId |-> u, proveedorId |-> p, fecha |-> f]

Solicitudes ==
  { Solicitud(1, 1, Hoy), Solicitud(1, 2, "") }

SinSolicitud == Solicitud(0, 0, "")

VARIABLES
  pagos,                \* ids of the rows of table pagos
  estadoPorDefecto,     \* the status the stored function gives an envio row
                        \* (it is passed none): the initial one of an envio
  envios,               \* rows of table envios (one per recorded Delivery)
  detalle_envio_correo, \* rows [pago_id, envio_id]: the claim links
  pc,                   \* position of each enviarCorreoProveedor invocation
  solicitud,            \* its arguments
  rows,                 \* its local rows: the ids the query returned, in order
  llamadas,             \* the webhook calls it issued: the pagos of each payload
  webhookResponseData,  \* its local webhookResponseData
  estadoEnvio,          \* its local estadoEnvio
  resultado,            \* the ServiceResponse it returned
  lectura,              \* the last call of a read operation and its response
  ui,                   \* the fields of the GmailGenComponent
  red,                  \* the HTTP requests of the GmailGenService client that
                        \* have no response delivered yet
  doc                   \* the fields of the DocumentUploadComponent and the
                        \* scan it has in progress

vars == <<pagos, estadoPorDefecto, envios, detalle_envio_correo, pc, solicitud,
          rows, llamadas, webhookResponseData, estadoEnvio, resultado, lectura,
          ui, red, doc>>

(***************************************************************************)
(* Helpers.                                                                *)
(***************************************************************************)
RECURSIVE SumaMontos(_)
\* pagos.reduce((acc, p) => acc + (p.monto || 0), 0)
SumaMontos(ps) ==
  IF ps = <<>> THEN 0 ELSE SumaMontos(SubSeq(ps, 1, Len(ps) - 1)) + ps[Len(ps)].monto

Rango(s) == { s[k] : k \in 1..Len(s) }

\* String.prototype.toUpperCase, on the letters the catalogue uses.
Mayuscula(c) ==
  CASE c = "b" -> "B" [] c = "a" -> "A" [] c = "n" -> "N"
    [] c = "c" -> "C" [] c = "o" -> "O" [] OTHER -> c

toUpperCase(s) == [ k \in 1..Len(s) |-> Mayuscula(s[k]) ]

startsWith(s, pre) == Len(s) >= Len(pre) /\ SubSeq(s, 1, Len(pre)) = pre

PrefijoBanco == <<"B", "A", "N", "C", "O", "-">>

(***************************************************************************)
(* obtenerPagosDirectos: the eligibility query.                            *)
(***************************************************************************)
\* Mutant: the query without its NOT EXISTS filter.
SinDetalle_SinFiltro(i) == TRUE

\* NOT EXISTS (SELECT 1 FROM detalle_envio_correo dec WHERE dec.pago_id = p.id_pago)
SinDetalle(i) == ~ \E d \in detalle_envio_correo : d.pago_id = i

\* if (proveedorId) query += ' AND pr.id = :proveedor_id'
FiltroProveedor(fila, proveedorId) ==
  proveedorId # 0 => fila.proveedor_id = proveedorId

\* Mutant: the query with the filter on esta_verificado of the SQL functions
\* it replaced.
PagosElegibles_SoloVerificados(usuarioId, fecha, proveedorId) ==
  { i \in pagos :
      /\ CatalogoPagos[i].proveedor_id \in DOMAIN Proveedores
      /\ CatalogoPagos[i].usuario_id = usuarioId
      /\ CatalogoPagos[i].estado = "PAGADO"
      /\ CatalogoPagos[i].esta_activo
      /\ i \in Verificados
      /\ SinDetalle(i)
      /\ CatalogoPagos[i].fecha_pago = fecha
      /\ FiltroProveedor(CatalogoPagos[i], proveedorId) }

\* The WHERE clause: the ids of the rows the query selects.
PagosElegibles(usuarioId, fecha, proveedorId) ==
  { i \in pagos :
      /\ CatalogoPagos[i].proveedor_id \in DOMAIN Proveedores
      /\ CatalogoPagos[i].usuario_id = usuarioId
      /\ CatalogoPagos[i].estado = "PAGADO"
      /\ CatalogoPagos[i].esta_activo
      /\ SinDetalle(i)
      /\ CatalogoPagos[i].fecha_pago = fecha
      /\ FiltroProveedor(CatalogoPagos[i], proveedorId) }

NombreProveedor(i) == Proveedores[CatalogoPagos[i].proveedor_id].nombre

\* Order of two provider names in the ORDER BY: the catalogue's names differ in
\* their first letter.
PosicionNombre(n) == CASE n = "Alfa" -> 1 [] n = "Beta" -> 2 [] n = "Gama" -> 3

\* Mutant: ORDER BY pr.nombre DESC.
NombreMenorIgual_Descendente(n1, n2) == PosicionNombre(n1) >= PosicionNombre(n2)

NombreMenorIgual(n1, n2) == PosicionNombre(n1) <= PosicionNombre(n2)

\* ORDER BY pr.nombre ASC: every ordering of the selected rows that is
\* ascending in the provider name is a result the store may return (the
\* order among rows of one provider is not fixed by the query).
RECURSIVE OrdenadosPorNombre(_)
OrdenadosPorNombre(S) ==
  IF S = {} THEN { <<>> }
  ELSE UNION { { <<i>> \o s : s \in OrdenadosPorNombre(S \ {i}) } :
               i \in { j \in S : \A k \in S :
                         NombreMenorIgual(NombreProveedor(j), NombreProveedor(k)) } }

obtenerPagosDirectos(usuarioId, fecha, proveedorId) ==
  OrdenadosPorNombre(PagosElegibles(usuarioId, fecha, proveedorId))

(***************************************************************************)
(* enviarCorreoProveedor, the synchronous pieces.                          *)
(***************************************************************************)
\* const fechaResumen = fecha || fechaLocal
fechaResumen(s) == IF s.fecha # "" THEN s.fecha ELSE Hoy

\* if (!rows || rows.length === 0)
SinFilas(r) == Len(r) = 0

\* const pagos = rows.map(r => ({id, cliente, monto, codigo}))
PagosDe(r) ==
  [ k \in 1..Len(r) |->
      [id |-> r[k], cliente |-> CatalogoPagos[r[k]].cliente,
       monto |-> CatalogoPagos[r[k]].monto, codigo |-> CatalogoPagos[r[k]].codigo] ]

cantidadPagos(r) == Len(PagosDe(r))

\* Mutant: the total is the amount of the first pago.
montoTotal_Primero(r) == PagosDe(r)[1].monto

montoTotal(r) == SumaMontos(PagosDe(r))

\* The optional arguments asunto and mensaje, sequences of characters: the
\* empty text when the caller gave none (undefined and '' are both falsy).
AsuntoDe(s) == IF "asunto" \in DOMAIN s THEN s.asunto ELSE <<>>
MensajeDe(s) == IF "mensaje" \in DOMAIN s THEN s.mensaje ELSE <<>>

\* String.prototype.trim: the text without its leading and trailing white
\* space.
EsEspacio(c) == c \in {" ", "\n"}

RECURSIVE trimStart(_)
trimStart(s) ==
  IF s = <<>> THEN s ELSE IF EsEspacio(Head(s)) THEN trimStart(Tail(s)) ELSE s

RECURSIVE trimEnd(_)
trimEnd(s) ==
  IF s = <<>> THEN s
  ELSE IF EsEspacio(s[Len(s)]) THEN trimEnd(SubSeq(s, 1, Len(s) - 1)) ELSE s

trim(s) == trimEnd(trimStart(s))

\* Number.prototype.toFixed(2) of an amount held in cents.
toFixed2(m) == [entero |-> m \div 100, decimales |-> m % 100]

\* (asunto && asunto.trim()) || `Confirmación de pagos - ${proveedorNombre}`
\* Mutant: the override is used as it was given.
asuntoFinal_Literal(s, r) ==
  IF AsuntoDe(s) # <<>> /\ trim(AsuntoDe(s)) # <<>> THEN [texto |-> AsuntoDe(s)]
  ELSE [plantilla |-> "Confirmacion de pagos", proveedor |-> NombreProveedor(r[1])]

asuntoFinal(s, r) ==
  IF AsuntoDe(s) # <<>> /\ trim(AsuntoDe(s)) # <<>> THEN [texto |-> trim(AsuntoDe(s))]
  ELSE [plantilla |-> "Confirmacion de pagos", proveedor |-> NombreProveedor(r[1])]

\* (mensaje && mensaje.trim()) || `Estimado proveedor, ... ${cantidadPagos}
\* pago(s) por un total de ${montoTotal.toFixed(2)} ... fecha ${fechaResumen}.`
mensajeFinal(s, r) ==
  IF MensajeDe(s) # <<>> /\ trim(MensajeDe(s)) # <<>> THEN [texto |-> trim(MensajeDe(s))]
  ELSE [plantilla |-> "Estimado proveedor", cantidad |-> cantidadPagos(r),
        total |-> toFixed2(montoTotal(r)), fecha |-> fechaResumen(s)]

infoCorreoExtendido(s, r) ==
  [fecha |-> fechaResumen(s),
   correo |-> Proveedores[CatalogoPagos[r[1]].proveedor_id].correo,
   proveedor |-> NombreProveedor(r[1]),
   monto_total |-> montoTotal(r),
   cantidad_pagos |-> cantidadPagos(r),
   asunto |-> asuntoFinal(s, r),
   mensaje |-> mensajeFinal(s, r)]

\* webhookPayload.  Each info_pagos entry keeps the id of the row it was
\* built from, to tell which records a call notified.
webhookPayload(s, r) ==
  [ info_correo |-> infoCorreoExtendido(s, r),
    info_pagos |-> PagosDe(r) ]

\* Outcomes of axios.post: a thrown error (transport failure, the 15 s
\* timeout, HTTP error status) or a response body.  Of a body, code is its
\* code member (0 when it has none or a falsy one) and estado its estado
\* member, a JavaScript value written as a token ("undefined" when the body
\* has none).
ErrorTransporte == [lanzado |-> TRUE]
Cuerpo(code, est) == [lanzado |-> FALSE, code |-> code, estado |-> est]
RespuestasWebhook == { ErrorTransporte, Cuerpo(200, "true"), Cuerpo(500, "false") }

\* The bodies an endpoint may answer with.
CodigosCuerpo == {0, 200, 500}
ValoresEstado == {"true", "false", "null", "undefined", "0", "1"}
CuerposPosibles == { Cuerpo(c, e) : c \in CodigosCuerpo, e \in ValoresEstado }

\* JavaScript truthiness of a value token.
Truthy(v) == v \notin {"false", "null", "undefined", "0"}

SinRespuesta == [nulo |-> TRUE]

\* let estadoEnvio = 'ENVIADO'; try { ... if (data?.code && data.estado === false)
\* estadoEnvio = 'ERROR_WEBHOOK' } catch { estadoEnvio = 'ERROR_WEBHOOK' }
EstadoDeRespuesta(resp) ==
  IF resp.lanzado THEN "ERROR_WEBHOOK"
  ELSE IF resp.code # 0 /\ resp.estado = "false" THEN "ERROR_WEBHOOK"
  ELSE "ENVIADO"

\* Mutant: the prefix is compared without toUpperCase.
EsBancario_Exacto(p) == startsWith(p.codigo, PrefijoBanco)

\* pagos.forEach: String(p.codigo || '').toUpperCase().startsWith('BANCO-')
EsBancario(p) == startsWith(toUpperCase(p.codigo), PrefijoBanco)

\* Mutant: the bank-channel ids are never pushed.
idsPagosBancario_Vacio(r) == {}

idsPagosBancario(r) == { p.id : p \in { q \in Rango(PagosDe(r)) : EsBancario(q) } }

\* Mutant: the card-channel ids are never pushed.
idsPagosTarjeta_Ninguno(r) == {}

idsPagosTarjeta(r) == { p.id : p \in { q \in Rango(PagosDe(r)) : ~ EsBancario(q) } }

(***************************************************************************)
(* getResumenPagosDia: the rows of the query without provider filter,      *)
(* grouped by provider name in a Map (insertion order).                    *)
(***************************************************************************)
\* The index of the group with the given key, 0 when mapGroups has none.
IndiceGrupo(g, key) ==
  IF \E j \in 1..Len(g) : g[j].proveedorNombre = key
    THEN CHOOSE j \in 1..Len(g) : g[j].proveedorNombre = key
    ELSE 0

RECURSIVE AgruparFilas(_, _)
\* rows.forEach over the first k rows: mapGroups as the sequence of its entries.
AgruparFilas(r, k) ==
  IF k = 0 THEN <<>>
  ELSE LET g == AgruparFilas(r, k - 1)
           fila == CatalogoPagos[r[k]]
           key == NombreProveedor(r[k])
           j == IndiceGrupo(g, key)
           pago == [id |-> fila.id_pago, cliente |-> fila.cliente,
                    monto |-> fila.monto, codigo |-> fila.codigo]
       IN  IF j = 0
             THEN Append(g, [id |-> Proveedores[fila.proveedor_id].id,
                             proveedorNombre |-> key,
                             correoContacto |-> Proveedores[fila.proveedor_id].correo,
                             pagos |-> <<pago>>,
                             totalPagos |-> 1,
                             totalMonto |-> fila.monto])
             ELSE [g EXCEPT ![j] = [@ EXCEPT !.pagos = Append(@, pago),
                                             !.totalPagos = @ + 1,
                                             !.totalMonto = @ + fila.monto]]

\* mapGroups.forEach: the groups, with color by position and estado 'pendiente'.
GruposDe(r) ==
  LET g == AgruparFilas(r, Len(r))
  IN  [ j \in 1..Len(g) |->
          [id |-> g[j].id,
           proveedorNombre |-> g[j].proveedorNombre,
           correoContacto |-> g[j].correoContacto,
           color |-> IF (j - 1) % 2 = 0 THEN "teal" ELSE "brown",
           estado |-> "pendiente",
           pagos |-> g[j].pagos,
           totalPagos |-> g[j].totalPagos,
           totalMonto |-> g[j].totalMonto] ]

\* The data of every response getResumenPagosDia(usuarioId, fecha) may give in
\* the current state of the store (one per admissible order of the rows).
getResumenPagosDia(usuarioId, fecha) ==
  { GruposDe(r) :
      r \in obtenerPagosDirectos(usuarioId, IF fecha # "" THEN fecha ELSE Hoy, 0) }

(***************************************************************************)
(* The ServiceResponse values enviarCorreoProveedor returns: envio is the  *)
(* id of the envio row in data.envio (0 when there is none); infoCorreo,   *)
(* infoPagos and webhook are the other members of data (SinDatos in a      *)
(* response without data); error is the error text ("" when there is       *)
(* none).                                                                  *)
(***************************************************************************)
SinResultado == [pendiente |-> TRUE]
SinLectura == [operacion |-> "ninguna"]
SinDatos == [nulo |-> TRUE]

Respuesta(ok, code, envio) ==
  [success |-> ok, statusCode |-> code, envio |-> envio, error |-> "",
   infoCorreo |-> SinDatos, infoPagos |-> SinDatos, webhook |-> SinDatos]

\* return { success: false, error, statusCode }
Fallo(code, error) == [Respuesta(FALSE, code, 0) EXCEPT !.error = error]

\* The texts of the error member.
ErrorSinPagos == "No se encontraron pagos pendientes para este proveedor"
ErrorRegistrando == "Error registrando el envio de correo"
\* error.message of the error the store driver throws.
ErrorBaseDeDatos == "connect ECONNREFUSED"
\* The message member of a failure answer of the stored function.
MensajeRegistrar == "error en registrar_envio"

\* Mutant: the empty result is answered as a success.
RespuestaSinPagos_Exito == Respuesta(TRUE, 200, 0)

\* return { success: false, error: 'No se encontraron pagos ...', statusCode: 404 }
RespuestaSinPagos == Fallo(404, ErrorSinPagos)

\* The outer catch: return { success: false, error, statusCode: 500 }
RespuestaExcepcion == Fallo(500, ErrorBaseDeDatos)

\* parsedRegistrar when the query answered a null result.
SinRegistro == [nulo |-> TRUE]

\* Mutant: only a status above 500 counts as a failure.
RegistroFallido_Umbral(pr) == pr = SinRegistro \/ pr.status > 500

\* if (!parsedRegistrar || parsedRegistrar.status >= 400)
RegistroFallido(pr) == pr = SinRegistro \/ pr.status >= 400

\* Mutant: the report leaves out the raw webhook response.
RespuestaRegistro_SinWebhook(pr, s, r, w) ==
  IF RegistroFallido(pr)
    THEN Fallo(IF pr = SinRegistro \/ pr.status = 0 THEN 500 ELSE pr.status,
               IF pr = SinRegistro \/ pr.message = "" THEN ErrorRegistrando
               ELSE pr.message)
    ELSE [success |-> TRUE, statusCode |-> 200, envio |-> pr.data, error |-> "",
          infoCorreo |-> infoCorreoExtendido(s, r),
          infoPagos |-> PagosDe(r),
          webhook |-> SinDatos]

\* The return statements after the registrar query, in the invocation with
\* arguments s, rows r and webhookResponseData w.
RespuestaRegistro(pr, s, r, w) ==
  IF RegistroFallido(pr)
    THEN Fallo(IF pr = SinRegistro \/ pr.status = 0 THEN 500 ELSE pr.status,
               IF pr = SinRegistro \/ pr.message = "" THEN ErrorRegistrando
               ELSE pr.message)
    ELSE [success |-> TRUE, statusCode |-> 200, envio |-> pr.data, error |-> "",
          infoCorreo |-> infoCorreoExtendido(s, r),
          infoPagos |-> PagosDe(r),
          webhook |-> w]

EstadosEnvio == {"ENVIADO", "ERROR_WEBHOOK"}

(***************************************************************************)
(* The GmailGenComponent as constructed: its field initialisers.  A group  *)
(* is a record; null is SinGrupo.  iniciado tells that ngOnInit ran.       *)
(***************************************************************************)
SinGrupo == [nulo |-> TRUE]

ComponenteInicial ==
  [iniciado |-> FALSE,
   pendingGroups |-> <<>>,
   sentGroupsToday |-> <<>>,
   historialEnvios |-> <<>>,
   showComposeModal |-> FALSE,
   selectedGroup |-> SinGrupo,
   composeForm |-> [para |-> "", asunto |-> <<>>, mensaje |-> <<>>],
   isLoading |-> FALSE,
   isSending |-> FALSE,
   showErrorToast |-> FALSE,
   errorToastMessage |-> ""]

\* No request issued: siguiente is the number the next request gets, envios
\* the number of POST /enviar requests issued, enVuelo the requests whose
\* response has not been delivered to its subscriber.  masReciente is kept
\* for the properties: of the GET /resumen requests whose response was
\* delivered, the number of the one issued last and the list its response
\* gave.
RedInicial ==
  [siguiente |-> 1, envios |-> 0, enVuelo |-> {},
   masReciente |-> [id |-> 0, datos |-> <<>>]]

(***************************************************************************)
(* The DocumentUploadComponent as constructed: two cards without files,    *)
(* no pago bound (null is "" for the three texts).  lecturas holds the     *)
(* scans in progress, one per onScanCard call that started to read its     *)
(* files, and escaneos counts them.  ultimo is kept for the properties:    *)
(* the last call or callback and what it was given.                        *)
(***************************************************************************)
Tarjetas == {"invoices", "bank-doc"}

DocumentosInicial ==
  [pago |-> FALSE,
   isScanning |-> FALSE,
   scanMessage |-> "",
   scanError |-> "",
   isScanSuccess |-> FALSE,
   activeScanCardId |-> "",
   files |-> [c \in Tarjetas |-> <<>>],
   lecturas |-> {},
   escaneos |-> 0,
   ultimo |-> [op |-> "ninguno"]]

(***************************************************************************)
(* Initial state: the catalogue's initial rows, nothing sent.              *)
(***************************************************************************)
Init ==
  /\ pagos = PagosIniciales
  /\ estadoPorDefecto = "ENVIADO"
  /\ envios = {}
  /\ detalle_envio_correo = {}
  /\ pc = [a \in Intentos |-> "inicio"]
  /\ solicitud = [a \in Intentos |-> SinSolicitud]
  /\ rows = [a \in Intentos |-> <<>>]
  /\ llamadas = [a \in Intentos |-> <<>>]
  /\ webhookResponseData = [a \in Intentos |-> SinRespuesta]
  /\ estadoEnvio = [a \in Intentos |-> "ENVIADO"]
  /\ resultado = [a \in Intentos |-> SinResultado]
  /\ lectura = SinLectura
  /\ ui = ComponenteInicial
  /\ red = RedInicial
  /\ doc = DocumentosInicial

(***************************************************************************)
(* A payment flow inserts a row into pagos.                                *)
(***************************************************************************)
CrearPago(i) ==
  /\ i \in PagosNuevos \ pagos
  /\ pagos' = pagos \cup {i}
  /\ UNCHANGED <<ui, red, doc, lectura, estadoPorDefecto, envios, detalle_envio_correo, pc, solicitud,
                 rows, llamadas, webhookResponseData, estadoEnvio, resultado>>

(***************************************************************************)
(* enviarCorreoProveedor, steps 1 to 4: the eligibility query answers;     *)
(* with no rows the call returns 404, otherwise the payload is built and   *)
(* the webhook call is issued.  Invocations are numbered in the order in   *)
(* which their queries are answered.                                       *)
(***************************************************************************)
Consultar(a, s) ==
  /\ pc[a] = "inicio"
  /\ \A b \in Intentos : b < a => pc[b] # "inicio"
  /\ \E r \in obtenerPagosDirectos(s.usuarioId, fechaResumen(s), s.proveedorId) :
       /\ rows' = [rows EXCEPT ![a] = r]
       /\ IF SinFilas(r)
            THEN /\ pc' = [pc EXCEPT ![a] = "fin"]
                 /\ resultado' = [resultado EXCEPT ![a] = RespuestaSinPagos]
                 /\ UNCHANGED llamadas
            ELSE /\ pc' = [pc EXCEPT ![a] = "enviando"]
                 /\ llamadas' = [llamadas EXCEPT ![a] = Append(@, webhookPayload(s, r))]
                 /\ UNCHANGED resultado
  /\ solicitud' = [solicitud EXCEPT ![a] = s]
  /\ UNCHANGED <<ui, red, doc, lectura, pagos, estadoPorDefecto, envios, detalle_envio_correo,
                 webhookResponseData, estadoEnvio>>

\* Mutant: the webhook call is issued although the query failed.
ConsultaFalla_Llama(a, s) ==
  /\ pc[a] = "inicio"
  /\ \A b \in Intentos : b < a => pc[b] # "inicio"
  /\ solicitud' = [solicitud EXCEPT ![a] = s]
  /\ pc' = [pc EXCEPT ![a] = "fin"]
  /\ resultado' = [resultado EXCEPT ![a] = RespuestaExcepcion]
  /\ llamadas' = [llamadas EXCEPT ![a] =
                    Append(@, [info_correo |-> SinDatos, info_pagos |-> <<>>])]
  /\ UNCHANGED <<ui, red, doc, lectura, pagos, estadoPorDefecto, envios, detalle_envio_correo, rows,
                 webhookResponseData, estadoEnvio>>

\* The eligibility query fails (store unreachable): the outer catch returns 500.
ConsultaFalla(a, s) ==
  /\ pc[a] = "inicio"
  /\ \A b \in Intentos : b < a => pc[b] # "inicio"
  /\ solicitud' = [solicitud EXCEPT ![a] = s]
  /\ pc' = [pc EXCEPT ![a] = "fin"]
  /\ resultado' = [resultado EXCEPT ![a] = RespuestaExcepcion]
  /\ UNCHANGED <<ui, red, doc, lectura, pagos, estadoPorDefecto, envios, detalle_envio_correo, rows,
                 llamadas, webhookResponseData, estadoEnvio>>

\* Mutant: a failed webhook call returns at once, without the registrar query.
RespuestaWebhook_Corta(a, resp) ==
  /\ pc[a] = "enviando"
  /\ webhookResponseData' =
       [webhookResponseData EXCEPT ![a] = IF resp.lanzado THEN SinRespuesta ELSE resp]
  /\ estadoEnvio' = [estadoEnvio EXCEPT ![a] = EstadoDeRespuesta(resp)]
  /\ IF EstadoDeRespuesta(resp) = "ERROR_WEBHOOK"
       THEN /\ pc' = [pc EXCEPT ![a] = "fin"]
            /\ resultado' = [resultado EXCEPT ![a] = RespuestaExcepcion]
       ELSE /\ pc' = [pc EXCEPT ![a] = "registrando"]
            /\ UNCHANGED resultado
  /\ UNCHANGED <<ui, red, doc, lectura, pagos, estadoPorDefecto, envios, detalle_envio_correo, solicitud,
                 rows, llamadas>>

\* Mutant: a failed webhook call is issued again.
RespuestaWebhook_Reintenta(a, resp) ==
  /\ pc[a] = "enviando"
  /\ webhookResponseData' =
       [webhookResponseData EXCEPT ![a] = IF resp.lanzado THEN SinRespuesta ELSE resp]
  /\ estadoEnvio' = [estadoEnvio EXCEPT ![a] = EstadoDeRespuesta(resp)]
  /\ IF resp.lanzado /\ Len(llamadas[a]) < 2
       THEN /\ llamadas' = [llamadas EXCEPT ![a] = Append(@, @[1])]
            /\ UNCHANGED pc
       ELSE /\ pc' = [pc EXCEPT ![a] = "registrando"]
            /\ UNCHANGED llamadas
  /\ UNCHANGED <<ui, red, doc, lectura, pagos, estadoPorDefecto, envios, detalle_envio_correo,
                 solicitud, rows, resultado>>

(***************************************************************************)
(* Step 4, second half: axios.post settles (response, error or the 15 s    *)
(* timeout); estadoEnvio is computed and the registrar query is issued.    *)
(***************************************************************************)
RespuestaWebhook(a, resp) ==
  /\ pc[a] = "enviando"
  /\ webhookResponseData' =
       [webhookResponseData EXCEPT ![a] = IF resp.lanzado THEN SinRespuesta ELSE resp]
  /\ estadoEnvio' = [estadoEnvio EXCEPT ![a] = EstadoDeRespuesta(resp)]
  /\ pc' = [pc EXCEPT ![a] = "registrando"]
  /\ UNCHANGED <<ui, red, doc, lectura, pagos, estadoPorDefecto, envios, detalle_envio_correo, solicitud,
                 rows, llamadas, resultado>>

(***************************************************************************)
(* The replacements of the registrar_envio_correo_con_detalles query.      *)
(***************************************************************************)
\* Mutant: the registrar is given the subject and body of the request, not
\* the composed ones.
ArgumentosRegistrar_TextoCrudo(a) ==
  [proveedor_id |-> solicitud[a].proveedorId,
   usuario_envio_id |-> solicitud[a].usuarioId,
   fecha_resumen |-> fechaResumen(solicitud[a]),
   cantidad_pagos |-> cantidadPagos(rows[a]),
   monto_total |-> montoTotal(rows[a]),
   asunto_correo |-> [texto |-> AsuntoDe(solicitud[a])],
   cuerpo_correo |-> [texto |-> MensajeDe(solicitud[a])],
   ids_pagos_tarjeta |-> idsPagosTarjeta(rows[a]),
   ids_pagos_bancario |-> idsPagosBancario(rows[a])]

ArgumentosRegistrar(a) ==
  [proveedor_id |-> solicitud[a].proveedorId,
   usuario_envio_id |-> solicitud[a].usuarioId,
   fecha_resumen |-> fechaResumen(solicitud[a]),
   cantidad_pagos |-> cantidadPagos(rows[a]),
   monto_total |-> montoTotal(rows[a]),
   asunto_correo |-> asuntoFinal(solicitud[a], rows[a]),
   cuerpo_correo |-> mensajeFinal(solicitud[a], rows[a]),
   ids_pagos_tarjeta |-> idsPagosTarjeta(rows[a]),
   ids_pagos_bancario |-> idsPagosBancario(rows[a])]

(***************************************************************************)
(* The stored function registrar_envio_correo_con_detalles: one            *)
(* transaction that inserts the envio row and one detalle_envio_correo row *)
(* per id it was given.  It is given no status: the status of the row is   *)
(* the function's own.                                                     *)
(***************************************************************************)
SiguienteIdEnvio == Cardinality(envios) + 1

FilaEnvio(args) ==
  [id_envio |-> SiguienteIdEnvio,
   proveedor_id |-> args.proveedor_id,
   usuario_envio_id |-> args.usuario_envio_id,
   fecha_resumen |-> args.fecha_resumen,
   cantidad_pagos |-> args.cantidad_pagos,
   monto_total |-> args.monto_total,
   asunto_correo |-> args.asunto_correo,
   cuerpo_correo |-> args.cuerpo_correo,
   estado |-> estadoPorDefecto]

FilasDetalle(args) ==
  { [pago_id |-> i, envio_id |-> SiguienteIdEnvio, tipo |-> "TARJETA"] :
      i \in args.ids_pagos_tarjeta }
  \cup
  { [pago_id |-> i, envio_id |-> SiguienteIdEnvio, tipo |-> "BANCARIO"] :
      i \in args.ids_pagos_bancario }

registrar_envio_correo_con_detalles(args) ==
  /\ envios' = envios \cup {FilaEnvio(args)}
  /\ detalle_envio_correo' = detalle_envio_correo \cup FilasDetalle(args)

(***************************************************************************)
(* Step 5: the registrar query answers and the call returns.               *)
(***************************************************************************)
\* Mutant: the registrar query is issued without awaiting the webhook call.
RegistrarOk_SinEsperar(a) ==
  /\ pc[a] \in {"enviando", "registrando"}
  /\ registrar_envio_correo_con_detalles(ArgumentosRegistrar(a))
  /\ resultado' = [resultado EXCEPT ![a] =
       RespuestaRegistro([status |-> 200, message |-> "", data |-> SiguienteIdEnvio],
                         solicitud[a], rows[a], webhookResponseData[a])]
  /\ pc' = [pc EXCEPT ![a] = "fin"]
  /\ UNCHANGED <<ui, red, doc, lectura, pagos, estadoPorDefecto, solicitud, rows, llamadas,
                 webhookResponseData, estadoEnvio>>

\* The function committed and answered {status: 200, data: the envio}.
RegistrarOk(a) ==
  /\ pc[a] = "registrando"
  /\ registrar_envio_correo_con_detalles(ArgumentosRegistrar(a))
  /\ resultado' = [resultado EXCEPT ![a] =
       RespuestaRegistro([status |-> 200, message |-> "", data |-> SiguienteIdEnvio],
                         solicitud[a], rows[a], webhookResponseData[a])]
  /\ pc' = [pc EXCEPT ![a] = "fin"]
  /\ UNCHANGED <<ui, red, doc, lectura, pagos, estadoPorDefecto, solicitud, rows, llamadas,
                 webhookResponseData, estadoEnvio>>

\* Nothing is written: the function rolled back and answered a status >= 400
\* ("estado"), it answered a null result ("nulo"), or the query threw (store
\* unreachable, "lanzado") and the outer catch returns 500.
ModosDeFalla == {"estado", "nulo", "lanzado"}

\* Mutant: the links are written although the call returns the failure.
RegistrarFalla_Escribe(a, modo) ==
  /\ pc[a] = "registrando"
  /\ modo \in ModosDeFalla
  /\ detalle_envio_correo' =
       detalle_envio_correo \cup FilasDetalle(ArgumentosRegistrar(a))
  /\ resultado' = [resultado EXCEPT ![a] = RespuestaExcepcion]
  /\ pc' = [pc EXCEPT ![a] = "fin"]
  /\ UNCHANGED <<ui, red, doc, lectura, pagos, estadoPorDefecto, envios, solicitud,
                 rows, llamadas, webhookResponseData, estadoEnvio>>

\* Mutant: the error thrown by the registrar query leaves the call.
RegistrarFalla_Propaga(a, modo) ==
  /\ pc[a] = "registrando"
  /\ modo \in ModosDeFalla
  /\ IF modo = "lanzado"
       THEN /\ pc' = [pc EXCEPT ![a] = "excepcion"]
            /\ UNCHANGED resultado
       ELSE /\ pc' = [pc EXCEPT ![a] = "fin"]
            /\ resultado' = [resultado EXCEPT ![a] =
                 RespuestaRegistro(SinRegistro, solicitud[a], rows[a],
                                   webhookResponseData[a])]
  /\ UNCHANGED <<ui, red, doc, lectura, pagos, estadoPorDefecto, envios, detalle_envio_correo,
                 solicitud, rows, llamadas, webhookResponseData, estadoEnvio>>

RegistrarFalla(a, modo) ==
  /\ pc[a] = "registrando"
  /\ modo \in ModosDeFalla
  /\ resultado' = [resultado EXCEPT ![a] =
       CASE modo = "estado" ->
              RespuestaRegistro([status |-> 500, message |-> MensajeRegistrar, data |-> 0],
                                solicitud[a], rows[a], webhookResponseData[a])
         [] modo = "nulo" ->
              RespuestaRegistro(SinRegistro, solicitud[a], rows[a], webhookResponseData[a])
         [] modo = "lanzado" -> RespuestaExcepcion]
  /\ pc' = [pc EXCEPT ![a] = "fin"]
  /\ UNCHANGED <<ui, red, doc, lectura, pagos, estadoPorDefecto, envios, detalle_envio_correo, solicitud,
                 rows, llamadas, webhookResponseData, estadoEnvio>>

Next ==
  \/ \E i \in PagosNuevos : CrearPago(i)
  \/ \E a \in Intentos, s \in Solicitudes : Consultar(a, s)
  \/ \E a \in Intentos, s \in Solicitudes : ConsultaFalla(a, s)
  \/ \E a \in Intentos, resp \in RespuestasWebhook : RespuestaWebhook(a, resp)
  \/ \E a \in Intentos : RegistrarOk(a)
  \/ \E a \in Intentos, modo \in ModosDeFalla : RegistrarFalla(a, modo)

Spec == Init /\ [][Next]_vars

(***************************************************************************)
(* Termination: the invocations alone, all called for one scope.  Each     *)
(* step of an invocation is the settling of an await: the store answers a  *)
(* query or the query throws, and axios.post answers, throws or is cut by  *)
(* its 15 s timeout.  An await that can settle does.                       *)
(***************************************************************************)
SolicitudesVivo == { Solicitud(1, 1, Hoy) }

NextVivo ==
  \/ \E a \in Intentos, s \in SolicitudesVivo : Consultar(a, s)
  \/ \E a \in Intentos, s \in SolicitudesVivo : ConsultaFalla(a, s)
  \/ \E a \in Intentos, resp \in RespuestasWebhook : RespuestaWebhook(a, resp)
  \/ \E a \in Intentos : RegistrarOk(a)
  \/ \E a \in Intentos, modo \in ModosDeFalla : RegistrarFalla(a, modo)

SpecVivo == Init /\ [][NextVivo]_vars /\ WF_vars(NextVivo)

(***************************************************************************)
(* The read operations.  Each is one call that leaves its response in      *)
(* lectura.  getResumenPagosDia runs the eligibility query itself; the     *)
(* three others call a stored function (correos_pendientes_general_get,    *)
(* resumen_envios_fecha_get, historial_envios_get) and shape its answer.   *)
(***************************************************************************)
RespuestaLectura(ok, code, data, error) ==
  [success |-> ok, statusCode |-> code, data |-> data, error |-> error]

Lectura(op, args, resp) == [operacion |-> op, args |-> args, respuesta |-> resp]

ErrorResumenPagos == "Error obteniendo resumen de pagos (Direct Query)"
ErrorPendientes == "Error obteniendo correos pendientes generales para Gmail-GEN"
ErrorResumenEnvios == "Error obteniendo resumen de envios para Gmail-GEN"
ErrorHistorial == "Error obteniendo historial de envios para Gmail-GEN"

\* Mutant: an empty summary is answered as the 404 failure.
RespuestaResumen_VacioEsError(g) ==
  IF g = <<>> THEN RespuestaLectura(FALSE, 404, SinDatos, ErrorSinPagos)
  ELSE RespuestaLectura(TRUE, 200, g, "")

\* return { success: true, data: groups, statusCode: 200 }
RespuestaResumen(g) == RespuestaLectura(TRUE, 200, g, "")

\* Mutant: the summary claims the pagos it lists.
ResumenPagosDia_Reclama(usuarioId, fecha) ==
  /\ \E g \in getResumenPagosDia(usuarioId, fecha) :
       /\ lectura' = Lectura("getResumenPagosDia",
                             [usuarioId |-> usuarioId, fecha |-> fecha],
                             RespuestaResumen(g))
       /\ detalle_envio_correo' = detalle_envio_correo \cup
            { [pago_id |-> i, envio_id |-> 0, tipo |-> "TARJETA"] : i \in
                UNION { { q.id : q \in Rango(g[j].pagos) } : j \in 1..Len(g) } }
  /\ UNCHANGED <<ui, red, doc, pagos, estadoPorDefecto, envios, pc, solicitud,
                 rows, llamadas, webhookResponseData, estadoEnvio, resultado>>

\* Mutant: the summary waits while an enviarCorreoProveedor invocation is
\* between its query and its return.
ResumenPagosDia_Espera(usuarioId, fecha) ==
  /\ \A a \in Intentos : pc[a] \notin {"enviando", "registrando"}
  /\ \E g \in getResumenPagosDia(usuarioId, fecha) :
       lectura' = Lectura("getResumenPagosDia",
                          [usuarioId |-> usuarioId, fecha |-> fecha],
                          RespuestaResumen(g))
  /\ UNCHANGED <<ui, red, doc, pagos, estadoPorDefecto, envios, detalle_envio_correo, pc, solicitud,
                 rows, llamadas, webhookResponseData, estadoEnvio, resultado>>

\* getResumenPagosDia(usuarioId, fecha): the query answers and the groups are
\* returned, or the query throws and the catch returns 500.
ResumenPagosDia(usuarioId, fecha) ==
  /\ \/ \E g \in getResumenPagosDia(usuarioId, fecha) :
          lectura' = Lectura("getResumenPagosDia",
                             [usuarioId |-> usuarioId, fecha |-> fecha],
                             RespuestaResumen(g))
     \/ lectura' = Lectura("getResumenPagosDia",
                           [usuarioId |-> usuarioId, fecha |-> fecha],
                           RespuestaLectura(FALSE, 500, SinDatos, ErrorResumenPagos))
  /\ UNCHANGED <<ui, red, doc, pagos, estadoPorDefecto, envios, detalle_envio_correo, pc, solicitud,
                 rows, llamadas, webhookResponseData, estadoEnvio, resultado>>

(***************************************************************************)
(* The stored functions behind the three other read operations.  They      *)
(* only read.  Their answer is {status, message, data}; for the two group  *)
(* functions data has one entry per provider, in the order of the          *)
(* provider names: {id_proveedor, correo, pagos, resumen}.  The resumen    *)
(* member is the function's own summary of the group: absent, the count    *)
(* and sum of the pagos listed, or numbers written down when the group had *)
(* one more pago.                                                          *)
(***************************************************************************)
RECURSIVE EnOrden(_)
EnOrden(S) ==
  IF S = {} THEN <<>>
  ELSE LET m == CHOOSE x \in S : \A y \in S : x <= y
       IN  <<m>> \o EnOrden(S \ {m})

ModosResumen == {"ausente", "al dia", "atrasado"}

PagoDeFuncion(i) ==
  [id_pago |-> i, cliente |-> CatalogoPagos[i].cliente,
   monto |-> CatalogoPagos[i].monto, codigo |-> CatalogoPagos[i].codigo]

ResumenDeFuncion(modo, ids) ==
  LET ps == [k \in 1..Len(ids) |-> PagoDeFuncion(ids[k])]
  IN  CASE modo = "ausente" -> SinDatos
        [] modo = "al dia" ->
             [cantidad_pagos |-> Len(ps), monto_total |-> SumaMontos(ps)]
        [] modo = "atrasado" ->
             [cantidad_pagos |-> Len(ps) + 1, monto_total |-> SumaMontos(ps) + 100]

RECURSIVE EntradasDeFuncion(_, _, _)
\* The entries of data for the providers p, p + 1, ... that have a pago in S.
EntradasDeFuncion(S, modo, p) ==
  IF p \notin DOMAIN Proveedores THEN <<>>
  ELSE LET ids == EnOrden({ i \in S : CatalogoPagos[i].proveedor_id = p })
           resto == EntradasDeFuncion(S, modo, p + 1)
       IN  IF ids = <<>> THEN resto
           ELSE << [nombre |-> Proveedores[p].nombre,
                    detalles |->
                      [id_proveedor |-> p,
                       correo |-> Proveedores[p].correo,
                       pagos |-> [k \in 1..Len(ids) |-> PagoDeFuncion(ids[k])],
                       resumen |-> ResumenDeFuncion(modo, ids)]] >> \o resto

\* The pagos of the operator that are PAGADO and active, pending or sent.
PagosDelUsuario(usuarioId) ==
  { i \in pagos :
      /\ CatalogoPagos[i].proveedor_id \in DOMAIN Proveedores
      /\ CatalogoPagos[i].usuario_id = usuarioId
      /\ CatalogoPagos[i].estado = "PAGADO"
      /\ CatalogoPagos[i].esta_activo }

correos_pendientes_general_get(usuarioId, modo) ==
  [status |-> 200, message |-> "",
   data |-> EntradasDeFuncion({ i \in PagosDelUsuario(usuarioId) : SinDetalle(i) },
                              modo, 1)]

resumen_envios_fecha_get(usuarioId, fecha, modo) ==
  [status |-> 200, message |-> "",
   data |-> EntradasDeFuncion(
              { i \in PagosDelUsuario(usuarioId) :
                  ~ SinDetalle(i) /\ CatalogoPagos[i].fecha_pago = fecha },
              modo, 1)]

\* The largest number of envios the function returns in one answer.
MaxLimiteHistorial == 2

\* The envios of the operator, newest first, from offset on, at most limit
\* and at most MaxLimiteHistorial.
historial_envios_get(usuarioId, limit, offset) ==
  LET ids == EnOrden({ e.id_envio : e \in { x \in envios : x.usuario_envio_id = usuarioId } })
      n == Len(ids)
      nuevos == [k \in 1..n |-> ids[n + 1 - k]]
      tope == IF limit < MaxLimiteHistorial THEN limit ELSE MaxLimiteHistorial
      hasta == IF offset + tope < n THEN offset + tope ELSE n
  IN  [status |-> 200, message |-> "",
       data |-> IF offset >= n THEN <<>> ELSE SubSeq(nuevos, offset + 1, hasta)]

\* What db.query gives: the function's answer, its failure answer, a null
\* result, or a thrown error.
FallosLectura == {"ninguno", "estado", "nulo", "lanzado"}

ResultadoConsulta(fallo, respuesta) ==
  CASE fallo = "ninguno" -> [lanzado |-> FALSE, result |-> respuesta]
    [] fallo = "estado" ->
         [lanzado |-> FALSE,
          result |-> [status |-> 500, message |-> "", data |-> <<>>]]
    [] fallo = "nulo" -> [lanzado |-> FALSE, result |-> SinDatos]
    [] fallo = "lanzado" -> [lanzado |-> TRUE]

\* proveedores.forEach: one group per entry; totalPagos and totalMonto are
\* the numbers of resumen when it has them, and are computed from pagos
\* otherwise.
GruposDeFuncion(data, estado) ==
  [ j \in 1..Len(data) |->
      LET detalles == data[j].detalles
          ps == [k \in 1..Len(detalles.pagos) |->
                   [id |-> detalles.pagos[k].id_pago,
                    cliente |-> detalles.pagos[k].cliente,
                    monto |-> detalles.pagos[k].monto,
                    codigo |-> detalles.pagos[k].codigo]]
      IN  [id |-> detalles.id_proveedor,
           proveedorNombre |-> data[j].nombre,
           correoContacto |-> detalles.correo,
           color |-> IF (j - 1) % 2 = 0 THEN "teal" ELSE "brown",
           estado |-> estado,
           pagos |-> ps,
           totalPagos |-> IF detalles.resumen # SinDatos
                            THEN detalles.resumen.cantidad_pagos ELSE Len(ps),
           totalMonto |-> IF detalles.resumen # SinDatos
                            THEN detalles.resumen.monto_total ELSE SumaMontos(ps)] ]

\* The body of a read operation that calls a stored function: the failure
\* returns, the catch, and the success return: of the groups built from
\* data with the given estado, or (estado "") of data itself, the items.
RespuestaDeFuncion(consulta, errorPorDefecto, estado) ==
  IF consulta.lanzado THEN RespuestaLectura(FALSE, 500, SinDatos, ErrorBaseDeDatos)
  ELSE IF consulta.result = SinDatos \/ consulta.result.status >= 400
    THEN RespuestaLectura(
           FALSE,
           IF consulta.result = SinDatos THEN 500 ELSE consulta.result.status,
           SinDatos,
           IF consulta.result = SinDatos \/ consulta.result.message = ""
             THEN errorPorDefecto ELSE consulta.result.message)
    ELSE RespuestaLectura(
           TRUE, 200,
           IF estado = "" THEN consulta.result.data
           ELSE GruposDeFuncion(consulta.result.data, estado),
           "")

getCorreosPendientesGeneral(consulta) ==
  RespuestaDeFuncion(consulta, ErrorPendientes, "pendiente")

getResumenEnviosFecha(consulta) ==
  RespuestaDeFuncion(consulta, ErrorResumenEnvios, "enviado")

getHistorialEnvios(consulta) ==
  RespuestaDeFuncion(consulta, ErrorHistorial, "")

CorreosPendientesGeneral(usuarioId) ==
  /\ \E modo \in ModosResumen, fallo \in FallosLectura :
       lectura' = Lectura("getCorreosPendientesGeneral", [usuarioId |-> usuarioId],
                          getCorreosPendientesGeneral(
                            ResultadoConsulta(fallo,
                              correos_pendientes_general_get(usuarioId, modo))))
  /\ UNCHANGED <<ui, red, doc, pagos, estadoPorDefecto, envios, detalle_envio_correo, pc, solicitud,
                 rows, llamadas, webhookResponseData, estadoEnvio, resultado>>

ResumenEnviosFecha(usuarioId, fecha) ==
  /\ \E modo \in ModosResumen, fallo \in FallosLectura :
       lectura' = Lectura("getResumenEnviosFecha",
                          [usuarioId |-> usuarioId, fecha |-> fecha],
                          getResumenEnviosFecha(
                            ResultadoConsulta(fallo,
                              resumen_envios_fecha_get(
                                usuarioId, IF fecha # "" THEN fecha ELSE Hoy, modo))))
  /\ UNCHANGED <<ui, red, doc, pagos, estadoPorDefecto, envios, detalle_envio_correo, pc, solicitud,
                 rows, llamadas, webhookResponseData, estadoEnvio, resultado>>

\* An argument the caller did not give (undefined).
SinArgumento == -1

\* limit: number = 50, offset: number = 0
LimiteDe(limit) == IF limit = SinArgumento THEN 50 ELSE limit
OffsetDe(offset) == IF offset = SinArgumento THEN 0 ELSE offset

\* Mutant: the offset is not passed to the function.
HistorialEnvios_SinOffset(usuarioId, limit, offset) ==
  /\ \E fallo \in FallosLectura :
       lectura' = Lectura("getHistorialEnvios",
                          [usuarioId |-> usuarioId, limit |-> limit, offset |-> offset],
                          getHistorialEnvios(
                            ResultadoConsulta(fallo,
                              historial_envios_get(usuarioId, LimiteDe(limit), 0))))
  /\ UNCHANGED <<ui, red, doc, pagos, estadoPorDefecto, envios, detalle_envio_correo, pc, solicitud,
                 rows, llamadas, webhookResponseData, estadoEnvio, resultado>>

\* lectura keeps the arguments as the caller gave them.
HistorialEnvios(usuarioId, limit, offset) ==
  /\ \E fallo \in FallosLectura :
       lectura' = Lectura("getHistorialEnvios",
                          [usuarioId |-> usuarioId, limit |-> limit, offset |-> offset],
                          getHistorialEnvios(
                            ResultadoConsulta(fallo,
                              historial_envios_get(usuarioId, LimiteDe(limit),
                                                   OffsetDe(offset)))))
  /\ UNCHANGED <<ui, red, doc, pagos, estadoPorDefecto, envios, detalle_envio_correo, pc, solicitud,
                 rows, llamadas, webhookResponseData, estadoEnvio, resultado>>

(***************************************************************************)
(* The service with one enviarCorreoProveedor invocation and the read      *)
(* operations called at any moment: the requests of every operator, and    *)
(* every body the webhook endpoint may answer with.                        *)
(***************************************************************************)
SolicitudesServicio == Solicitudes \cup { Solicitud(2, 1, Hoy) }
RespuestasServicio == { ErrorTransporte } \cup CuerposPosibles
UsuariosLectura == {1, 2}
FechasLectura == {"", Ayer}
LimitesLectura == {1, 50}
DesplazamientosLectura == {0, 1}

NextServicio ==
  \/ \E i \in PagosNuevos : CrearPago(i)
  \/ \E s \in SolicitudesServicio : Consultar(1, s)
  \/ \E s \in SolicitudesServicio : ConsultaFalla(1, s)
  \/ \E resp \in RespuestasServicio : RespuestaWebhook(1, resp)
  \/ RegistrarOk(1)
  \/ \E modo \in ModosDeFalla : RegistrarFalla(1, modo)
  \/ \E u \in UsuariosLectura, f \in FechasLectura : ResumenPagosDia(u, f)
  \/ \E u \in UsuariosLectura : CorreosPendientesGeneral(u)
  \/ \E u \in UsuariosLectura : ResumenEnviosFecha(u, "")
  \/ \E u \in UsuariosLectura, l \in LimitesLectura, o \in DesplazamientosLectura :
       HistorialEnvios(u, l, o)

SpecServicio == Init /\ [][NextServicio]_vars

(***************************************************************************)
(* The queries over the stores the service may find: the catalogue's rows  *)
(* with or without the later ones, after any of a few histories of         *)
(* recorded deliveries.  The read operations and the eligibility read of   *)
(* enviarCorreoProveedor are applied to each.                              *)
(***************************************************************************)
\* A recorded delivery: the operator, the provider and the pagos it claimed.
EnvioPrevio(u, p, ids) == [usuarioId |-> u, proveedorId |-> p, ids |-> ids]

HistoriasPrevias ==
  { <<>>,
    << EnvioPrevio(1, 1, <<1, 2>>) >>,
    << EnvioPrevio(1, 2, <<3>>) >>,
    << EnvioPrevio(1, 1, <<1>>), EnvioPrevio(1, 1, <<2>>) >>,
    << EnvioPrevio(1, 2, <<3>>), EnvioPrevio(2, 1, <<4>>), EnvioPrevio(1, 1, <<1, 2>>) >>,
    << EnvioPrevio(1, 1, <<1>>), EnvioPrevio(1, 2, <<3>>), EnvioPrevio(1, 1, <<2>>) >> }

\* The rows the registrar wrote for the k-th delivery of a history.
FilaEnvioPrevio(h, k) ==
  [id_envio |-> k,
   proveedor_id |-> h[k].proveedorId,
   usuario_envio_id |-> h[k].usuarioId,
   fecha_resumen |-> Hoy,
   cantidad_pagos |-> cantidadPagos(h[k].ids),
   monto_total |-> montoTotal(h[k].ids),
   asunto_correo |-> asuntoFinal(Solicitud(h[k].usuarioId, h[k].proveedorId, Hoy), h[k].ids),
   cuerpo_correo |-> mensajeFinal(Solicitud(h[k].usuarioId, h[k].proveedorId, Hoy), h[k].ids),
   estado |-> "ENVIADO"]

FilasDetallePrevio(h, k) ==
  { [pago_id |-> i, envio_id |-> k, tipo |-> "TARJETA"] : i \in idsPagosTarjeta(h[k].ids) }
  \cup
  { [pago_id |-> i, envio_id |-> k, tipo |-> "BANCARIO"] : i \in idsPagosBancario(h[k].ids) }

InitConsultas ==
  /\ \E X \in SUBSET {8, 9, 10} : pagos = PagosIniciales \cup X
  /\ estadoPorDefecto = "ENVIADO"
  /\ \E h \in HistoriasPrevias :
       /\ envios = { FilaEnvioPrevio(h, k) : k \in 1..Len(h) }
       /\ detalle_envio_correo = UNION { FilasDetallePrevio(h, k) : k \in 1..Len(h) }
  /\ pc = [a \in Intentos |-> "inicio"]
  /\ solicitud = [a \in Intentos |-> SinSolicitud]
  /\ rows = [a \in Intentos |-> <<>>]
  /\ llamadas = [a \in Intentos |-> <<>>]
  /\ webhookResponseData = [a \in Intentos |-> SinRespuesta]
  /\ estadoEnvio = [a \in Intentos |-> "ENVIADO"]
  /\ resultado = [a \in Intentos |-> SinResultado]
  /\ lectura = SinLectura
  /\ ui = ComponenteInicial
  /\ red = RedInicial
  /\ doc = DocumentosInicial

SolicitudesConsultas ==
  { Solicitud(1, 1, Hoy), Solicitud(1, 2, ""), Solicitud(1, 3, Hoy), Solicitud(2, 1, Hoy) }

LimitesConsultas == {SinArgumento, 1, 50}
DesplazamientosConsultas == {SinArgumento, 1, 3}

NextConsultas ==
  \/ \E u \in UsuariosLectura, f \in FechasLectura : ResumenPagosDia(u, f)
  \/ \E s \in SolicitudesConsultas : Consultar(1, s)
  \/ \E u \in UsuariosLectura, l \in LimitesConsultas, o \in DesplazamientosConsultas :
       HistorialEnvios(u, l, o)

SpecConsultas == InitConsultas /\ [][NextConsultas]_vars

(***************************************************************************)
(* One enviarCorreoProveedor invocation with the arguments a caller may    *)
(* pass: subject and body overrides (absent, blank, with white space       *)
(* around or inside the text) and the absent provider id.                  *)
(***************************************************************************)
SolicitudConTexto(s, asunto, mensaje) ==
  [usuarioId |-> s.usuarioId, proveedorId |-> s.proveedorId, fecha |-> s.fecha,
   asunto |-> asunto, mensaje |-> mensaje]

Textos ==
  { <<>>, <<" ">>, <<"\n", " ">>, <<"H", "i">>, <<" ", "H", " ", "i", "\n">> }

SolicitudesEnvio ==
  { SolicitudConTexto(Solicitud(1, 1, Hoy), a, m) : a \in Textos, m \in Textos }
  \cup { Solicitud(1, 0, Hoy), Solicitud(1, 2, ""), Solicitud(1, 3, Hoy) }

NextEnvio ==
  \/ \E s \in SolicitudesEnvio : Consultar(1, s)
  \/ \E s \in SolicitudesEnvio : ConsultaFalla(1, s)
  \/ \E resp \in RespuestasWebhook : RespuestaWebhook(1, resp)
  \/ RegistrarOk(1)
  \/ \E modo \in ModosDeFalla : RegistrarFalla(1, modo)

SpecEnvio == Init /\ [][NextEnvio]_vars

(***************************************************************************)
(* Summaries requested at any moment of one enviarCorreoProveedor          *)
(* invocation, while the payment flows insert rows.                        *)
(***************************************************************************)
NextResumen ==
  \/ \E i \in PagosNuevos : CrearPago(i)
  \/ \E s \in Solicitudes : Consultar(1, s)
  \/ \E s \in Solicitudes : ConsultaFalla(1, s)
  \/ \E resp \in RespuestasWebhook : RespuestaWebhook(1, resp)
  \/ RegistrarOk(1)
  \/ \E modo \in ModosDeFalla : RegistrarFalla(1, modo)
  \/ \E f \in FechasLectura : ResumenPagosDia(1, f)

SpecResumen == Init /\ [][NextResumen]_vars

(***************************************************************************)
(* The Gmail-GEN page: the GmailGenComponent, the GmailGenService client   *)
(* of the browser and the service behind the API, for the operator who is  *)
(* logged in.  A request is in red.enVuelo from the moment the client      *)
(* issues it until its response is delivered to the subscriber; a read     *)
(* request is answered by the service at some moment in between, and its   *)
(* respuesta is what the read gave at that moment.  The n-th POST /enviar  *)
(* is served by the n-th enviarCorreoProveedor invocation: intento is n.   *)
(* causa and grupo are not part of a request: causa tells which call       *)
(* issued it, 0 for ngOnInit and n for the success branch of the n-th POST *)
(* /enviar, and grupo is the group that was selected when onSendEmail      *)
(* issued it.                                                              *)
(***************************************************************************)
Operador == 1

SinRespuestaHttp == [pendiente |-> TRUE]

Peticion(id, op, args, causa) ==
  [id |-> id, operacion |-> op, args |-> args, causa |-> causa,
   respuesta |-> SinRespuestaHttp]

\* 'Confirmacion de Pago'
AsuntoModal ==
  <<"C", "o", "n", "f", "i", "r", "m", "a", "c", "i", "o", "n", " ",
    "d", "e", " ", "P", "a", "g", "o">>

\* 'Hola, te envio los pagos que te hicimos. Revisalos.'
MensajeModal ==
  <<"H", "o", "l", "a", ",", " ", "t", "e", " ", "e", "n", "v", "i", "o", " ",
    "l", "o", "s", " ", "p", "a", "g", "o", "s", " ", "q", "u", "e", " ",
    "t", "e", " ", "h", "i", "c", "i", "m", "o", "s", ".", " ",
    "R", "e", "v", "i", "s", "a", "l", "o", "s", ".">>

\* GmailGenService.enviarCorreoProveedor of the client: the body of the POST
\* has proveedor_id, and fecha, asunto and mensaje when the input has a
\* truthy one.
CuerpoEnviar(input) ==
  [proveedor_id |-> input.proveedorId,
   fecha |-> IF "fecha" \in DOMAIN input THEN input.fecha ELSE "",
   asunto |-> IF "asunto" \in DOMAIN input THEN input.asunto ELSE <<>>,
   mensaje |-> IF "mensaje" \in DOMAIN input THEN input.mensaje ELSE <<>>]

\* The route POST /enviar: the arguments it gives enviarCorreoProveedor, the
\* operator of the session and the members of the body.
SolicitudDeCuerpo(body) ==
  SolicitudConTexto(Solicitud(Operador, body.proveedor_id, body.fecha),
                    body.asunto, body.mensaje)

\* cargarResumen(); cargarEnviadosHoy(); cargarHistorial(): the three GET
\* requests, numbered from n.
PeticionesDeCarga(n, causa) ==
  { Peticion(n, "resumen", [fecha |-> ""], causa),
    Peticion(n + 1, "enviados-resumen", [fecha |-> ""], causa),
    Peticion(n + 2, "historial", [limit |-> 50, offset |-> 0], causa) }

EnVuelo(op) == { r \in red.enVuelo : r.operacion = op }

SinAtender(op) == { r \in EnVuelo(op) : r.respuesta = SinRespuestaHttp }

Atendidas(op) == { r \in EnVuelo(op) : r.respuesta # SinRespuestaHttp }

Responder(r, resp) ==
  red' = [red EXCEPT !.enVuelo = (@ \ {r}) \cup {[r EXCEPT !.respuesta = resp]}]

ServicioSinCambio ==
  UNCHANGED <<pagos, estadoPorDefecto, envios, detalle_envio_correo, pc, solicitud,
              rows, llamadas, webhookResponseData, estadoEnvio, resultado, lectura,
              doc>>

\* ngOnInit
NgOnInit ==
  /\ ~ ui.iniciado
  /\ ui' = [ui EXCEPT !.iniciado = TRUE, !.isLoading = TRUE]
  /\ red' = [red EXCEPT !.siguiente = @ + 3,
                        !.enVuelo = @ \cup PeticionesDeCarga(red.siguiente, 0)]
  /\ ServicioSinCambio

\* The service answers GET /resumen: getResumenPagosDia for the operator.
AtenderResumen(r) ==
  /\ r \in SinAtender("resumen")
  /\ \/ \E g \in getResumenPagosDia(Operador, r.args.fecha) :
          Responder(r, RespuestaResumen(g))
     \/ Responder(r, RespuestaLectura(FALSE, 500, SinDatos, ErrorResumenPagos))
  /\ UNCHANGED ui
  /\ ServicioSinCambio

\* response.success && response.data ? [...response.data] : []; the data of
\* a success response of the service is an array, which is truthy also when
\* it is empty.  The error callback of the subscription also leaves [].
DatosDe(resp) == IF resp.success THEN resp.data ELSE <<>>

\* cargarResumen: the next and error callbacks of its subscription.
ResumenRecibido(r) ==
  /\ r \in Atendidas("resumen")
  /\ ui' = [ui EXCEPT !.isLoading = FALSE, !.pendingGroups = DatosDe(r.respuesta)]
  /\ red' = [red EXCEPT !.enVuelo = @ \ {r},
                        !.masReciente =
                          IF r.id > @.id
                            THEN [id |-> r.id, datos |-> DatosDe(r.respuesta)]
                            ELSE @]
  /\ ServicioSinCambio

\* cargarEnviadosHoy: the service answers GET /enviados-resumen with
\* getResumenEnviosFecha and the callback of the subscription runs with the
\* answer.
EnviadosRecibido(r) ==
  /\ r \in SinAtender("enviados-resumen")
  /\ \E fallo \in {"ninguno"} :
       ui' = [ui EXCEPT !.sentGroupsToday =
                DatosDe(getResumenEnviosFecha(
                          ResultadoConsulta(fallo,
                            resumen_envios_fecha_get(
                              Operador,
                              IF r.args.fecha # "" THEN r.args.fecha ELSE Hoy,
                              "ausente"))))]
  /\ red' = [red EXCEPT !.enVuelo = @ \ {r}]
  /\ ServicioSinCambio

\* cargarHistorial: the service answers GET /historial with
\* getHistorialEnvios and the callback of the subscription runs with the
\* answer.
HistorialRecibido(r) ==
  /\ r \in SinAtender("historial")
  /\ \E fallo \in {"ninguno"} :
       ui' = [ui EXCEPT !.historialEnvios =
                DatosDe(getHistorialEnvios(
                          ResultadoConsulta(fallo,
                            historial_envios_get(Operador, r.args.limit,
                                                 r.args.offset))))]
  /\ red' = [red EXCEPT !.enVuelo = @ \ {r}]
  /\ ServicioSinCambio

\* openComposeModal(group), for a group of the list on the page.
OpenComposeModal(j) ==
  /\ j \in 1..Len(ui.pendingGroups)
  /\ ui' = [ui EXCEPT !.selectedGroup = ui.pendingGroups[j],
                      !.composeForm = [para |-> ui.pendingGroups[j].correoContacto,
                                       asunto |-> AsuntoModal,
                                       mensaje |-> MensajeModal],
                      !.showComposeModal = TRUE]
  /\ UNCHANGED red
  /\ ServicioSinCambio

\* closeComposeModal
CloseComposeModal ==
  /\ ui.showComposeModal
  /\ ui' = [ui EXCEPT !.showComposeModal = FALSE]
  /\ UNCHANGED red
  /\ ServicioSinCambio

\* onSendEmail up to the subscription: with no group selected it returns;
\* otherwise isSending is set and the POST is issued.
OnSendEmail ==
  /\ ui.selectedGroup # SinGrupo
  /\ red.envios < MaxIntentos
  /\ ui' = [ui EXCEPT !.isSending = TRUE]
  /\ red' = [red EXCEPT
               !.siguiente = @ + 1,
               !.envios = @ + 1,
               !.enVuelo = @ \cup
                 { Peticion(red.siguiente, "enviar",
                            CuerpoEnviar([proveedorId |-> ui.selectedGroup.id,
                                          asunto |-> ui.composeForm.asunto,
                                          mensaje |-> ui.composeForm.mensaje]),
                            0) @@ [intento |-> red.envios + 1,
                                   grupo |-> ui.selectedGroup] }]
  /\ ServicioSinCambio

\* The service takes up a POST /enviar: the query of enviarCorreoProveedor.
AtenderEnviar(r) ==
  /\ r \in EnVuelo("enviar")
  /\ Consultar(r.intento, SolicitudDeCuerpo(r.args))

\* The same, when the query throws.
AtenderEnviarFalla(r) ==
  /\ r \in EnVuelo("enviar")
  /\ ConsultaFalla(r.intento, SolicitudDeCuerpo(r.args))

ErrorEnviando == "Error enviando correo de confirmacion a proveedor"

\* Mutant: the success branch issues no reload.
EnviarRecibido_SinRecarga(r) ==
  /\ r \in EnVuelo("enviar")
  /\ pc[r.intento] = "fin"
  /\ IF ~ resultado[r.intento].success
       THEN /\ ui' = [ui EXCEPT !.isSending = FALSE,
                                !.errorToastMessage =
                                  IF resultado[r.intento].error # ""
                                    THEN resultado[r.intento].error ELSE ErrorEnviando,
                                !.showErrorToast = TRUE]
            /\ red' = [red EXCEPT !.enVuelo = @ \ {r}]
       ELSE /\ ui' = [ui EXCEPT !.isSending = FALSE,
                                !.showComposeModal = FALSE,
                                !.selectedGroup = SinGrupo]
            /\ red' = [red EXCEPT !.enVuelo = @ \ {r}]
  /\ ServicioSinCambio

\* The next callback of onSendEmail's subscription with the ServiceResponse
\* the invocation returned: the failure branch, or the success branch with
\* the three reloads.
EnviarRecibido(r) ==
  /\ r \in EnVuelo("enviar")
  /\ pc[r.intento] = "fin"
  /\ IF ~ resultado[r.intento].success
       THEN /\ ui' = [ui EXCEPT !.isSending = FALSE,
                                !.errorToastMessage =
                                  IF resultado[r.intento].error # ""
                                    THEN resultado[r.intento].error ELSE ErrorEnviando,
                                !.showErrorToast = TRUE]
            /\ red' = [red EXCEPT !.enVuelo = @ \ {r}]
       ELSE /\ ui' = [ui EXCEPT !.isSending = FALSE,
                                !.showComposeModal = FALSE,
                                !.selectedGroup = SinGrupo,
                                !.isLoading = TRUE]
            /\ red' = [red EXCEPT !.siguiente = @ + 3,
                                  !.enVuelo = (@ \ {r}) \cup
                                              PeticionesDeCarga(red.siguiente,
                                                                r.intento)]
  /\ ServicioSinCambio

\* Mutant: the error callback closes the modal and clears the selection.
EnviarFallido_Cierra(r) ==
  /\ r \in EnVuelo("enviar")
  /\ pc[r.intento] = "fin"
  /\ ~ resultado[r.intento].success
  /\ ui' = [ui EXCEPT !.isSending = FALSE,
                      !.showComposeModal = FALSE,
                      !.selectedGroup = SinGrupo,
                      !.errorToastMessage = ErrorEnviando,
                      !.showErrorToast = TRUE]
  /\ red' = [red EXCEPT !.enVuelo = @ \ {r}]
  /\ ServicioSinCambio

\* The error callback of onSendEmail's subscription: the response of an
\* invocation that failed came with an HTTP error status.
EnviarFallido(r) ==
  /\ r \in EnVuelo("enviar")
  /\ pc[r.intento] = "fin"
  /\ ~ resultado[r.intento].success
  /\ ui' = [ui EXCEPT !.isSending = FALSE,
                      !.errorToastMessage = ErrorEnviando,
                      !.showErrorToast = TRUE]
  /\ red' = [red EXCEPT !.enVuelo = @ \ {r}]
  /\ ServicioSinCambio

\* setTimeout(() => { this.showErrorToast = false }, 3000)
OcultarErrorToast ==
  /\ ui.showErrorToast
  /\ ui' = [ui EXCEPT !.showErrorToast = FALSE]
  /\ UNCHANGED red
  /\ ServicioSinCambio

\* The page followed through its pending list and its sends: the answers
\* to the requests for the two other lists are left in flight.
NextPagina ==
  \/ NgOnInit
  \/ \E r \in red.enVuelo : AtenderResumen(r)
  \/ \E r \in red.enVuelo : ResumenRecibido(r)
  \/ \E j \in 1..2 : OpenComposeModal(j)
  \/ CloseComposeModal
  \/ OnSendEmail
  \/ \E r \in red.enVuelo : AtenderEnviar(r)
  \/ \E a \in Intentos : RespuestaWebhook(a, Cuerpo(200, "true"))
  \/ \E a \in Intentos : RegistrarOk(a)
  \/ \E r \in red.enVuelo : EnviarRecibido(r)
  \/ \E r \in red.enVuelo : EnviarFallido(r)
  \/ OcultarErrorToast
  \/ \E i \in PagosNuevos : CrearPago(i)

SpecPagina == Init /\ [][NextPagina]_vars

\* The page with its three lists: the operator opens the first group of the
\* pending list and sends at most MaxEnviosRecarga times.
MaxEnviosRecarga == 1

NextRecargas ==
  \/ NgOnInit
  \/ \E r \in red.enVuelo : AtenderResumen(r)
  \/ \E r \in red.enVuelo : ResumenRecibido(r)
  \/ \E r \in red.enVuelo : EnviadosRecibido(r)
  \/ \E r \in red.enVuelo : HistorialRecibido(r)
  \/ OpenComposeModal(1)
  \/ CloseComposeModal
  \/ red.envios < MaxEnviosRecarga /\ OnSendEmail
  \/ \E r \in red.enVuelo : AtenderEnviar(r)
  \/ \E r \in red.enVuelo : AtenderEnviarFalla(r)
  \/ \E a \in Intentos : RespuestaWebhook(a, Cuerpo(200, "true"))
  \/ \E a \in Intentos : RegistrarOk(a)
  \/ \E r \in red.enVuelo : EnviarRecibido(r)
  \/ \E r \in red.enVuelo : EnviarFallido(r)
  \/ OcultarErrorToast

SpecRecargas == Init /\ [][NextRecargas]_vars

(***************************************************************************)
(* The DocumentUploadComponent.  A File is its type and its name, a        *)
(* sequence of characters.                                                 *)
(***************************************************************************)
Archivo(tipo, nombre) == [type |-> tipo, name |-> nombre]

ArchivoA == Archivo("application/pdf", <<"a", ".", "p", "d", "f">>)
ArchivoB == Archivo("", <<"b", ".", "P", "D", "F">>)
ArchivoC == Archivo("application/x-pdf", <<"c">>)
ArchivoD == Archivo("image/png", <<"d", ".", "p", "n", "g">>)
ArchivoE == Archivo("text/plain", <<"p", "d", "f">>)

Minuscula(c) ==
  CASE c = "P" -> "p" [] c = "D" -> "d" [] c = "F" -> "f" [] OTHER -> c

toLowerCase(s) == [ k \in 1..Len(s) |-> Minuscula(s[k]) ]

endsWith(s, suf) ==
  Len(s) >= Len(suf) /\ SubSeq(s, Len(s) - Len(suf) + 1, Len(s)) = suf

\* The filter of onFileSelected and of onScanCard.
EsPdf(file) ==
  \/ file.type = "application/pdf"
  \/ file.type = "application/x-pdf"
  \/ endsWith(toLowerCase(file.name), <<".", "p", "d", "f">>)

\* const maxFiles = cardId === 'bank-doc' ? 1 : 5
maxFiles(cardId) == IF cardId = "bank-doc" THEN 1 ELSE 5

SoloPdf == "Solo se permiten archivos PDF."
LimiteTexto(cardId) ==
  IF maxFiles(cardId) = 1 THEN "1 archivo PDF" ELSE "5 archivos PDF"
HastaALaVez(cardId) == <<"Solo se pueden subir hasta", LimiteTexto(cardId), "a la vez.">>
SoloHasta(cardId) == <<"Solo se permiten hasta", LimiteTexto(cardId)>>

\* Array.prototype.slice(0, n)
slice(s, n) == SubSeq(s, 1, IF n < Len(s) THEN n ELSE Len(s))

\* Array.prototype.splice(index, 1): a negative index counts from the end.
splice(s, index) ==
  LET desde == IF index < 0
                 THEN (IF Len(s) + index < 0 THEN 0 ELSE Len(s) + index)
                 ELSE index
  IN  IF desde >= Len(s) THEN s
      ELSE SubSeq(s, 1, desde) \o SubSeq(s, desde + 2, Len(s))

PaginaSinCambio ==
  UNCHANGED <<pagos, estadoPorDefecto, envios, detalle_envio_correo, pc, solicitud,
              rows, llamadas, webhookResponseData, estadoEnvio, resultado, lectura,
              ui, red>>

\* Mutant: every PDF of the selection is pushed.
onFileSelected_SinLimite(sel, cardId) ==
  /\ LET ahora == [doc EXCEPT !.ultimo = [op |-> "onFileSelected", files |-> sel]]
         pdfFiles == SelectSeq(sel, EsPdf)
     IN  IF Len(sel) = 0 \/ cardId \notin Tarjetas THEN doc' = ahora
         ELSE IF Len(pdfFiles) = 0 THEN doc' = [ahora EXCEPT !.scanError = SoloPdf]
         ELSE doc' = [ahora EXCEPT !.files[cardId] = @ \o pdfFiles]
  /\ PaginaSinCambio

\* onFileSelected(event, cardId), sel being the files of the input.
onFileSelected(sel, cardId) ==
  /\ LET ahora == [doc EXCEPT !.ultimo = [op |-> "onFileSelected", files |-> sel]]
         pdfFiles == SelectSeq(sel, EsPdf)
     IN  IF Len(sel) = 0 \/ cardId \notin Tarjetas THEN doc' = ahora
         ELSE IF Len(pdfFiles) = 0 THEN doc' = [ahora EXCEPT !.scanError = SoloPdf]
         ELSE LET totalArchivos == Len(doc.files[cardId]) + Len(pdfFiles)
                  error == IF totalArchivos > maxFiles(cardId)
                             THEN HastaALaVez(cardId) ELSE ""
                  espacioDisponible == maxFiles(cardId) - Len(doc.files[cardId])
              IN  IF espacioDisponible <= 0
                    THEN doc' = [ahora EXCEPT !.scanError =
                                   IF error = "" THEN SoloHasta(cardId) ELSE error]
                    ELSE doc' = [ahora EXCEPT
                                   !.scanError = error,
                                   !.files[cardId] = @ \o slice(pdfFiles,
                                                                espacioDisponible)]
  /\ PaginaSinCambio

\* removeFile(cardId, index)
removeFile(cardId, index) ==
  /\ LET ahora == [doc EXCEPT !.ultimo = [op |-> "removeFile"]]
     IN  IF cardId \notin Tarjetas THEN doc' = ahora
         ELSE doc' = [ahora EXCEPT !.files[cardId] = splice(@, index)]
  /\ PaginaSinCambio

\* The selections of the file input, the card ids and the indexes the
\* handlers are called with.
Selecciones ==
  { <<>>, <<ArchivoD, ArchivoE>>, <<ArchivoD, ArchivoB>>, <<ArchivoC, ArchivoE>>,
    <<ArchivoA, ArchivoB, ArchivoD, ArchivoA, ArchivoB, ArchivoA, ArchivoB>> }

IdsDeTarjeta == Tarjetas \cup {"otra"}

Indices == {-1, 0, 5}

NextArchivos ==
  \/ \E sel \in Selecciones, cardId \in IdsDeTarjeta : onFileSelected(sel, cardId)
  \/ \E cardId \in IdsDeTarjeta, index \in Indices : removeFile(cardId, index)

SpecArchivos == Init /\ [][NextArchivos]_vars

(***************************************************************************)
(* onScanCard and what it starts.  A scan in progress is the closure of    *)
(* one onScanCard call: its number n, its cardId, its limitedFiles, the    *)
(* number of files read so far (archivos holds that many), and its fase:   *)
(* a FileReader is reading the next file, or the request of the service    *)
(* named is outstanding.  The audit event and recargarPagos, which the     *)
(* success branches call, write nothing in the component.                  *)
(***************************************************************************)
MaxEscaneos == 2

Escaneando == "Escaneando documento..."
DebesAdjuntar == "Debes adjuntar al menos un archivo PDF antes de escanear."
SinContenido == "No se pudo leer el contenido del archivo PDF."
ErrorLeyendo == "Error leyendo el archivo PDF."

\* leerArchivo(index) once every file is read: the service it calls.
ServicioDe(cardId) ==
  IF cardId = "bank-doc" THEN "enviarDocumentoBancoPdf"
  ELSE IF doc.pago THEN "scanPagoDocumento"
  ELSE "enviarDocumentosRecibiendoPdf"

\* onScanCard(cardId)
onScanCard(cardId) ==
  /\ LET ahora == [doc EXCEPT !.activeScanCardId = cardId,
                              !.scanError = "",
                              !.scanMessage = "",
                              !.isScanSuccess = FALSE,
                              !.ultimo = [op |-> "onScanCard"]]
     IN  IF cardId \notin Tarjetas \/ Len(doc.files[cardId]) = 0
           THEN doc' = [ahora EXCEPT !.scanError = DebesAdjuntar]
         ELSE IF Len(SelectSeq(doc.files[cardId], EsPdf)) = 0
           THEN doc' = [ahora EXCEPT !.scanError = SoloPdf]
         ELSE /\ doc.escaneos < MaxEscaneos
              /\ doc' = [ahora EXCEPT
                           !.isScanning = TRUE,
                           !.scanMessage = Escaneando,
                           !.escaneos = @ + 1,
                           !.lecturas = @ \cup
                             { [n |-> doc.escaneos + 1,
                                cardId |-> cardId,
                                limitedFiles |->
                                  slice(SelectSeq(doc.files[cardId], EsPdf),
                                        maxFiles(cardId)),
                                leidos |-> 0,
                                fase |-> "leyendo",
                                servicio |-> ""] }]
  /\ PaginaSinCambio

Leyendo == { c \in doc.lecturas : c.fase = "leyendo" }

Esperando == { c \in doc.lecturas : c.fase = "esperando" }

\* reader.onload, base64 being the text after the comma of reader.result ("" when
\* there is none): the failure return, the next leerArchivo, or, after the
\* last file, the call of the scan method up to its subscription.
LectorOnload(c, base64) ==
  /\ c \in Leyendo
  /\ LET ahora == [doc EXCEPT !.ultimo = [op |-> "onload", n |-> c.n]]
     IN  IF base64 = ""
           THEN doc' = [ahora EXCEPT !.scanError = SinContenido,
                                     !.isScanning = FALSE,
                                     !.lecturas = @ \ {c}]
         ELSE IF c.leidos + 1 >= Len(c.limitedFiles)
           THEN doc' = [ahora EXCEPT
                          !.isScanning = TRUE,
                          !.scanError = "",
                          !.scanMessage = Escaneando,
                          !.lecturas = (@ \ {c}) \cup
                            { [c EXCEPT !.leidos = @ + 1,
                                        !.fase = "esperando",
                                        !.servicio = ServicioDe(c.cardId)] }]
         ELSE doc' = [ahora EXCEPT
                        !.lecturas = (@ \ {c}) \cup { [c EXCEPT !.leidos = @ + 1] }]
  /\ PaginaSinCambio

\* Mutant: reader.onerror leaves isScanning as it is.
LectorOnerror_SinReset(c) ==
  /\ c \in Leyendo
  /\ doc' = [doc EXCEPT !.ultimo = [op |-> "onerror", n |-> c.n],
                        !.scanError = ErrorLeyendo,
                        !.lecturas = @ \ {c}]
  /\ PaginaSinCambio

\* reader.onerror
LectorOnerror(c) ==
  /\ c \in Leyendo
  /\ doc' = [doc EXCEPT !.ultimo = [op |-> "onerror", n |-> c.n],
                        !.scanError = ErrorLeyendo,
                        !.isScanning = FALSE,
                        !.lecturas = @ \ {c}]
  /\ PaginaSinCambio

\* The bodies a scan service may answer with: no body, or code and estado,
\* estado being a JavaScript value written as a token.
SinCuerpo == [code |-> 0, estado |-> "undefined"]
RespuestasEscaneo ==
  { SinCuerpo } \cup
  { [code |-> k, estado |-> e] : k \in {200, 500}, e \in {"true", "false", "'true'"} }

\* response?.code === 200 && response?.estado === true
EscaneoValido(response) == response.code = 200 /\ response.estado = "true"

\* response.mensaje || '...', for a response that carries no mensaje.
MensajeDeEscaneo(servicio) ==
  IF servicio = "scanPagoDocumento" THEN "Documento validado correctamente."
  ELSE IF servicio = "enviarDocumentosRecibiendoPdf"
    THEN "Documentos enviados correctamente."
  ELSE "Documento de banco enviado correctamente."

\* response?.error || response?.mensaje || '...', for a response with neither.
ErrorDeEscaneo(servicio) ==
  IF servicio = "scanPagoDocumento" THEN "Error al validar el documento."
  ELSE IF servicio = "enviarDocumentosRecibiendoPdf"
    THEN "Error al procesar los documentos."
  ELSE "Error al procesar el documento de banco."

\* The last alternative of the error callback's text.
ErrorDesconocido(servicio) ==
  IF servicio = "enviarDocumentoBancoPdf"
    THEN "Error desconocido al escanear el documento de banco."
  ELSE "Error desconocido al escanear el documento."

\* The next callback of scanDocumento, scanDocumentosRecibiendo and
\* scanDocumentoBanco: the three differ in the texts only.
ScanNext(c, response) ==
  /\ c \in Esperando
  /\ LET ahora == [doc EXCEPT !.ultimo = [op |-> "next", n |-> c.n,
                                         response |-> response],
                              !.isScanning = FALSE,
                              !.lecturas = @ \ {c}]
     IN  IF EscaneoValido(response)
           THEN doc' = [ahora EXCEPT !.isScanSuccess = TRUE,
                                     !.scanMessage = MensajeDeEscaneo(c.servicio),
                                     !.scanError = ""]
           ELSE doc' = [ahora EXCEPT !.isScanSuccess = FALSE,
                                     !.scanError = ErrorDeEscaneo(c.servicio),
                                     !.scanMessage = ""]
  /\ PaginaSinCambio

\* The error callback of the three.
ScanError(c) ==
  /\ c \in Esperando
  /\ doc' = [doc EXCEPT !.ultimo = [op |-> "error", n |-> c.n],
                        !.isScanSuccess = FALSE,
                        !.scanError = ErrorDesconocido(c.servicio),
                        !.scanMessage = "",
                        !.isScanning = FALSE,
                        !.lecturas = @ \ {c}]
  /\ PaginaSinCambio

\* The component with files on its cards, with or without a pago bound.
ArchivosDeInicio ==
  { [c \in Tarjetas |-> IF c = "invoices" THEN f ELSE g] :
      f \in { <<>>, <<ArchivoA, ArchivoB>> }, g \in { <<>>, <<ArchivoC>> } }

InitEscaneo ==
  /\ pagos = PagosIniciales
  /\ estadoPorDefecto = "ENVIADO"
  /\ envios = {}
  /\ detalle_envio_correo = {}
  /\ pc = [a \in Intentos |-> "inicio"]
  /\ solicitud = [a \in Intentos |-> SinSolicitud]
  /\ rows = [a \in Intentos |-> <<>>]
  /\ llamadas = [a \in Intentos |-> <<>>]
  /\ webhookResponseData = [a \in Intentos |-> SinRespuesta]
  /\ estadoEnvio = [a \in Intentos |-> "ENVIADO"]
  /\ resultado = [a \in Intentos |-> SinResultado]
  /\ lectura = SinLectura
  /\ ui = ComponenteInicial
  /\ red = RedInicial
  /\ \E fs \in ArchivosDeInicio, p \in BOOLEAN :
       doc = [DocumentosInicial EXCEPT !.files = fs, !.pago = p]

NextEscaneo ==
  \/ \E cardId \in IdsDeTarjeta : onScanCard(cardId)
  \/ \E c \in doc.lecturas, base64 \in {"", "JVBERi0="} : LectorOnload(c, base64)
  \/ \E c \in doc.lecturas : LectorOnerror(c)
  \/ \E c \in doc.lecturas, response \in RespuestasEscaneo : ScanNext(c, response)
  \/ \E c \in doc.lecturas : ScanError(c)

\* What the scan numbered n does next: its FileReader fires load or error,
\* or its request is answered or fails.
PasoDeEscaneo(n) ==
  \E c \in doc.lecturas :
    /\ c.n = n
    /\ \/ \E base64 \in {"", "JVBERi0="} : LectorOnload(c, base64)
       \/ LectorOnerror(c)
       \/ \E response \in RespuestasEscaneo : ScanNext(c, response)
       \/ ScanError(c)

\* A FileReader that was started fires one of its two events, and a request
\* that was issued is answered or fails.
SpecEscaneo ==
  /\ InitEscaneo
  /\ [][NextEscaneo]_vars
  /\ \A n \in 1..MaxEscaneos : WF_vars(PasoDeEscaneo(n))

(***************************************************************************)
(* Properties.                                                             *)
(***************************************************************************)
\* The records linked to the envio with the given id.
PagosVinculados(id) == { d.pago_id : d \in { x \in detalle_envio_correo : x.envio_id = id } }

\* The ids of the records a webhook payload notifies.
PagosNotificados(payload) == { p.id : p \in Rango(payload.info_pagos) }

\* The invocation has read its rows and has not returned yet.
EnCurso(a) == pc[a] \in {"enviando", "registrando"}

\* The invocation returned a report: the registrar committed its envio.
Registrado(a) == pc[a] = "fin" /\ resultado[a].success

\* C1. No double-claim: no two envios are linked to the same pago, whatever
\* the interleaving of the enviarCorreoProveedor invocations.
C1_SinDobleReclamo ==
  \A d1, d2 \in detalle_envio_correo :
    d1.pago_id = d2.pago_id => d1.envio_id = d2.envio_id

\* C2. At-most-once triggering: no pago is in the payload of more than one
\* webhook call, over all the calls of all the invocations.
C2_UnaSolaNotificacion ==
  \A a, b \in Intentos :
    \A j \in 1..Len(llamadas[a]), k \in 1..Len(llamadas[b]) :
      (a # b \/ j # k) =>
        PagosNotificados(llamadas[a][j]) \cap PagosNotificados(llamadas[b][k]) = {}

\* C3. The eligibility read and the claim write are one atomic unit: no two
\* invocations are in flight at once having read a common pago.
C3_LecturaYReclamoAtomicos ==
  \A a, b \in Intentos :
    (a # b /\ EnCurso(a) /\ EnCurso(b)) =>
      Rango(rows[a]) \cap Rango(rows[b]) = {}

\* The envio rows with the given id.
EnviosConId(id) == { e \in envios : e.id_envio = id }

\* The invocation's step in which its eligibility query is answered.
LeeFilas(b) == pc[b] = "inicio" /\ pc'[b] # "inicio" /\ resultado'[b] # RespuestaExcepcion

\* C4. Delivery recorded regardless of transport outcome: the step that
\* receives the webhook outcome never returns, whatever the outcome, but
\* issues the registrar query; and the invocation that then returns a report
\* has created exactly one envio, linked to every pago it read, whatever its
\* estadoEnvio.
C4_RegistroSinImportarWebhook ==
  [][\A a \in Intentos :
       /\ (pc[a] = "enviando" /\ pc'[a] # "enviando") =>
            (pc'[a] = "registrando" /\ resultado'[a] = SinResultado)
       /\ (pc[a] = "registrando" /\ pc'[a] = "fin" /\ resultado'[a].success) =>
            /\ Cardinality(envios') = Cardinality(envios) + 1
            /\ \E e \in envios' \ envios :
                 /\ e.id_envio = resultado'[a].envio
                 /\ e.cantidad_pagos = Len(rows[a])
                 /\ { d.pago_id : d \in detalle_envio_correo' \ detalle_envio_correo }
                      = Rango(rows[a])
                 /\ \A d \in detalle_envio_correo' \ detalle_envio_correo :
                      d.envio_id = e.id_envio]_vars

C4_Testigo ==
  \E a \in Intentos :
    /\ Registrado(a)
    /\ estadoEnvio[a] = "ERROR_WEBHOOK"
    /\ Cardinality(EnviosConId(resultado[a].envio)) = 1
    /\ PagosVinculados(resultado[a].envio) = Rango(rows[a])

\* C5. The status persisted with the envio is the estadoEnvio computed from
\* the webhook outcome of the invocation that recorded it.
C5_EstadoPersistido ==
  \A a \in Intentos :
    Registrado(a) =>
      \A e \in EnviosConId(resultado[a].envio) : e.estado = estadoEnvio[a]

\* C6. An invocation whose query finds no eligible pago returns the 404
\* failure at once: it issues no webhook call and writes neither an envio
\* nor a link, and having returned it does nothing more.
C6_SinPagosTermina ==
  [][\A a \in Intentos :
       /\ ( /\ LeeFilas(a)
            /\ PagosElegibles(solicitud'[a].usuarioId, fechaResumen(solicitud'[a]),
                              solicitud'[a].proveedorId) = {} ) =>
            /\ pc'[a] = "fin"
            /\ resultado'[a].success = FALSE
            /\ resultado'[a].statusCode = 404
            /\ resultado'[a].envio = 0
            /\ llamadas'[a] = <<>>
            /\ envios' = envios
            /\ detalle_envio_correo' = detalle_envio_correo
       /\ pc[a] = "fin" =>
            (pc'[a] = "fin" /\ llamadas'[a] = llamadas[a] /\ resultado'[a] = resultado[a])]_vars

C6_Testigo ==
  \E a \in Intentos :
    /\ pc[a] = "fin"
    /\ resultado[a].success = FALSE
    /\ resultado[a].statusCode = 404
    /\ rows[a] = <<>>
    /\ llamadas[a] = <<>>
    /\ solicitud[a] = Solicitud(1, 2, "")
    /\ PagosElegibles(1, Hoy, 2) = {}
    /\ Cardinality(envios) = 1

\* The pagos of the request's scope (operator, recipient, date) that are
\* PAGADO and active, linked or not.
EnAlcance(s) ==
  { i \in pagos :
      /\ CatalogoPagos[i].usuario_id = s.usuarioId
      /\ CatalogoPagos[i].estado = "PAGADO"
      /\ CatalogoPagos[i].esta_activo
      /\ CatalogoPagos[i].fecha_pago = fechaResumen(s)
      /\ (s.proveedorId # 0 => CatalogoPagos[i].proveedor_id = s.proveedorId) }

MismoAlcance(s1, s2) ==
  /\ s1.usuarioId = s2.usuarioId
  /\ s1.proveedorId = s2.proveedorId
  /\ fechaResumen(s1) = fechaResumen(s2)

\* C7. After an invocation has recorded an envio (whatever its estadoEnvio),
\* an invocation for the same scope whose query is answered later, when the
\* scope holds no pago but those the first one read, returns the 404 failure,
\* issues no webhook call and writes no second envio.
C7_SegundoEnvioSinPagos ==
  [][\A a, b \in Intentos :
       ( /\ a # b
         /\ Registrado(a)
         /\ LeeFilas(b)
         /\ MismoAlcance(solicitud[a], solicitud'[b])
         /\ EnAlcance(solicitud'[b]) \subseteq Rango(rows[a]) ) =>
         /\ pc'[b] = "fin"
         /\ resultado'[b].success = FALSE
         /\ resultado'[b].statusCode = 404
         /\ llamadas'[b] = <<>>
         /\ envios' = envios
         /\ detalle_envio_correo' = detalle_envio_correo]_vars

C7_Testigo ==
  \E a, b \in Intentos :
    /\ a < b
    /\ Registrado(a)
    /\ estadoEnvio[a] = "ERROR_WEBHOOK"
    /\ MismoAlcance(solicitud[a], solicitud[b])
    /\ pc[b] = "fin"
    /\ resultado[b].statusCode = 404
    /\ llamadas[b] = <<>>
    /\ Cardinality(envios) = 1

\* The ids of the pagos in the groups of a getResumenPagosDia response.
PagosEnGrupos(g) == UNION { { p.id : p \in Rango(g[j].pagos) } : j \in 1..Len(g) }

UsuariosConsulta == {1, 2}
FechasConsulta == {"", Ayer}

\* The pagos read by the invocations that recorded an envio.
PagosConsumidos == UNION { Rango(rows[a]) : a \in { b \in Intentos : Registrado(b) } }

\* C8. Once an invocation has recorded its envio, no pago it read is
\* eligible again: none is in any response of getResumenPagosDia and none is
\* selected by the query of a later enviarCorreoProveedor, for any scope.
C8_ReclamadoNoElegible ==
  PagosConsumidos # {} =>
    \A u \in UsuariosConsulta, f \in FechasConsulta :
      /\ \A g \in getResumenPagosDia(u, f) : PagosEnGrupos(g) \cap PagosConsumidos = {}
      /\ \A p \in {0, 1, 2} :
           PagosElegibles(u, IF f # "" THEN f ELSE Hoy, p) \cap PagosConsumidos = {}

C8_Testigo ==
  \E a \in Intentos :
    /\ Registrado(a)
    /\ Rango(rows[a]) = {1, 2}
    /\ {1, 2, 3} \subseteq PagosConsumidos
    /\ getResumenPagosDia(1, "") = {<<>>}

\* C9. The claim-and-record write is all-or-nothing: every envio is the one
\* of an invocation that returned a report and is linked to exactly the
\* pagos that invocation read; every link belongs to an envio; an invocation
\* that returned a failure has no envio.
C9_TodoONada ==
  /\ \A e \in envios :
       \E a \in Intentos :
         /\ Registrado(a)
         /\ resultado[a].envio = e.id_envio
         /\ PagosVinculados(e.id_envio) = Rango(rows[a])
  /\ \A d \in detalle_envio_correo : EnviosConId(d.envio_id) # {}
  /\ \A a \in Intentos :
       (pc[a] = "fin" /\ ~ resultado[a].success) => resultado[a].envio = 0
  /\ Cardinality(envios) = Cardinality({ a \in Intentos : Registrado(a) })

C9_Testigo ==
  \E a, b \in Intentos :
    /\ Registrado(a)
    /\ Len(rows[a]) = 2
    /\ PagosVinculados(resultado[a].envio) = Rango(rows[a])
    /\ pc[b] = "fin"
    /\ ~ resultado[b].success
    /\ rows[b] # <<>>
    /\ Rango(rows[b]) \cap { d.pago_id : d \in detalle_envio_correo } = {}

\* C10. The caller sees success only if an envio was recorded by that
\* invocation: the store holds the envio the report names, with the pagos
\* the invocation read linked to it.
C10_ExitoImplicaEnvio ==
  \A a \in Intentos :
    (pc[a] = "fin" /\ resultado[a].success) =>
      \E e \in envios :
        /\ e.id_envio = resultado[a].envio
        /\ e.usuario_envio_id = solicitud[a].usuarioId
        /\ Rango(rows[a]) \subseteq PagosVinculados(e.id_envio)

C10_Testigo ==
  \E a, b \in Intentos :
    /\ Registrado(a)
    /\ estadoEnvio[a] = "ENVIADO"
    /\ EnviosConId(resultado[a].envio) # {}
    /\ pc[b] = "fin"
    /\ ~ resultado[b].success
    /\ resultado[b].statusCode = 500
    /\ estadoEnvio[b] = "ENVIADO"
    /\ webhookResponseData[b] # SinRespuesta

\* The invocation returned a failure after its webhook call was answered
\* with estadoEnvio ENVIADO: the registrar query failed.
FalloTrasEnvio(a) ==
  /\ pc[a] = "fin"
  /\ ~ resultado[a].success
  /\ llamadas[a] # <<>>
  /\ estadoEnvio[a] = "ENVIADO"

\* The invocation returned a failure of another kind.
OtroFallo(a) == pc[a] = "fin" /\ ~ resultado[a].success /\ ~ FalloTrasEnvio(a)

\* C11. A failure of the registrar query after the webhook reported ENVIADO
\* is returned as an error of its own: it carries the recipient, the ids of
\* the pagos read and the composed message, and it differs from the error
\* returned by every invocation that failed in another way.
C11_FalloTrasEnvioDistinto ==
  \A a \in Intentos :
    FalloTrasEnvio(a) =>
      /\ resultado[a].infoCorreo # SinDatos
      /\ resultado[a].infoPagos # SinDatos
      /\ \A b \in Intentos : OtroFallo(b) => resultado[b] # resultado[a]

\* C12. An invocation that returns a failure has recorded nothing: none of
\* its steps but the one that returns a report writes an envio or a link, so
\* the step that returns the failure of the registrar query leaves envios,
\* the links and the eligibility of every pago as they were.
C12_ErrorSinRegistro ==
  [][\A a \in Intentos :
       (pc'[a] # pc[a] /\ ~ (pc'[a] = "fin" /\ resultado'[a].success)) =>
         /\ envios' = envios
         /\ detalle_envio_correo' = detalle_envio_correo
         /\ resultado'[a] # SinResultado => resultado'[a].envio = 0
         /\ \A i \in Rango(rows'[a]) : SinDetalle(i) => (SinDetalle(i))']_vars

C12_Testigo ==
  \E a \in Intentos :
    /\ pc[a] = "fin"
    /\ resultado[a] = Fallo(500, MensajeRegistrar)
    /\ Len(rows[a]) = 2
    /\ envios = {}
    /\ Rango(rows[a]) \subseteq
         PagosElegibles(solicitud[a].usuarioId, fechaResumen(solicitud[a]),
                        solicitud[a].proveedorId)

\* C13. The step in which the registrar query commits returns a report even
\* when estadoEnvio is ERROR_WEBHOOK: success with status 200, the envio just
\* written, the composed message, the pagos read and the raw webhook
\* response (null when the call threw).
C13_ErrorWebhookEsInforme ==
  [][\A a \in Intentos :
       ( /\ pc[a] = "registrando"
         /\ pc'[a] = "fin"
         /\ estadoEnvio[a] = "ERROR_WEBHOOK"
         /\ envios' # envios ) =>
         /\ resultado'[a].success
         /\ resultado'[a].statusCode = 200
         /\ \E e \in envios' \ envios : resultado'[a].envio = e.id_envio
         /\ resultado'[a].infoCorreo = infoCorreoExtendido(solicitud[a], rows[a])
         /\ resultado'[a].infoCorreo.asunto = asuntoFinal(solicitud[a], rows[a])
         /\ resultado'[a].infoCorreo.mensaje = mensajeFinal(solicitud[a], rows[a])
         /\ [k \in 1..Len(rows[a]) |-> resultado'[a].infoPagos[k].id] = rows[a]
         /\ resultado'[a].webhook = webhookResponseData[a]
         /\ llamadas[a][1].info_correo = resultado'[a].infoCorreo]_vars

C13_Testigo ==
  \E a, b \in Intentos :
    /\ Registrado(a)
    /\ estadoEnvio[a] = "ERROR_WEBHOOK"
    /\ resultado[a].webhook = Cuerpo(500, "false")
    /\ Len(resultado[a].infoPagos) = 2
    /\ Registrado(b)
    /\ estadoEnvio[b] = "ERROR_WEBHOOK"
    /\ resultado[b].webhook = SinRespuesta

\* C16. An invocation issues at most one webhook call: exactly one once its
\* query returned rows, none when it returned no row or failed; a call that
\* failed or timed out is not issued again.
C16_UnaLlamada ==
  \A a \in Intentos :
    /\ Len(llamadas[a]) <= 1
    /\ (pc[a] # "inicio" /\ rows[a] # <<>>) => Len(llamadas[a]) = 1
    /\ rows[a] = <<>> => Len(llamadas[a]) = 0

C16_Testigo ==
  \E a, b \in Intentos :
    /\ pc[a] = "fin"
    /\ webhookResponseData[a] = SinRespuesta
    /\ estadoEnvio[a] = "ERROR_WEBHOOK"
    /\ Len(llamadas[a]) = 1
    /\ pc[b] = "fin"
    /\ resultado[b].statusCode = 404
    /\ Len(llamadas[b]) = 0

\* The shape of a ServiceResponse.
EsServiceResponse(x) ==
  /\ x # SinResultado
  /\ x.success \in BOOLEAN
  /\ x.statusCode \in {200, 404, 500}
  /\ x.success <=> x.statusCode = 200

\* C15. Every invocation eventually returns, and what it returns is a
\* ServiceResponse (a report or a failure), whatever the webhook call does
\* and whether the queries succeed or fail; once returned it stays returned.
C15_SiempreRetorna ==
  <>[](\A a \in Intentos : pc[a] = "fin" /\ EsServiceResponse(resultado[a]))

C15_Testigo ==
  \E a, b \in Intentos :
    /\ pc[a] = "fin"
    /\ webhookResponseData[a] = SinRespuesta
    /\ resultado[a] = RespuestaExcepcion
    /\ llamadas[a] # <<>>
    /\ pc[b] = "fin"
    /\ resultado[b].success
    /\ webhookResponseData[b] = Cuerpo(500, "false")

\* The invocation's webhook call has settled.
WebhookRespondido(a) == pc[a] \in {"registrando", "fin"} /\ llamadas[a] # <<>>

\* C14. Classification of the webhook outcome: estadoEnvio is ERROR_WEBHOOK
\* whenever the call threw (transport failure, timeout) or the body's estado
\* is false, whatever else the body holds; it is ENVIADO only for a body
\* that was received and whose estado is not false.
C14_ClasificacionPasarela ==
  \A a \in Intentos :
    WebhookRespondido(a) =>
      ( estadoEnvio[a] = "ERROR_WEBHOOK" <=>
          ( \/ webhookResponseData[a] = SinRespuesta
            \/ webhookResponseData[a].estado = "false" ) )

\* The store and the webhook calls.
Almacen == <<pagos, envios, detalle_envio_correo>>

\* C17. The read operations (getResumenPagosDia, getCorreosPendientesGeneral,
\* getResumenEnviosFecha, getHistorialEnvios) leave the store as it is and
\* issue no webhook call; an envio or a link is written only by the step of
\* enviarCorreoProveedor in which the registrar query commits.
C17_LecturasSinEfecto ==
  [][ /\ lectura' # lectura =>
           /\ Almacen' = Almacen
           /\ llamadas' = llamadas
           /\ pc' = pc
           /\ resultado' = resultado
      /\ (envios' # envios \/ detalle_envio_correo' # detalle_envio_correo) =>
           /\ lectura' = lectura
           /\ \E a \in Intentos :
                pc[a] = "registrando" /\ pc'[a] = "fin" /\ resultado'[a].success ]_vars

C17_Testigo ==
  /\ lectura.operacion = "getHistorialEnvios"
  /\ lectura.respuesta.success
  /\ Len(lectura.respuesta.data) = 1
  /\ Cardinality(envios) = 1
  /\ { d.pago_id : d \in detalle_envio_correo } = {1, 2}
  /\ Len(llamadas[1]) = 1

\* C18. getResumenPagosDia on a scope without eligible pagos returns success
\* with an empty list of groups; the only failure it returns is the 500 of
\* its catch, when the query itself fails.
C18_VacioNoEsError ==
  [][ ( /\ lectura' # lectura
        /\ lectura'.operacion = "getResumenPagosDia" ) =>
        LET u == lectura'.args.usuarioId
            f == IF lectura'.args.fecha # "" THEN lectura'.args.fecha ELSE Hoy
            resp == lectura'.respuesta
        IN  /\ resp.success =>
                 /\ resp.statusCode = 200
                 /\ resp.data \in getResumenPagosDia(u, lectura'.args.fecha)
                 /\ PagosElegibles(u, f, 0) = {} => resp.data = <<>>
            /\ ~ resp.success =>
                 /\ resp.statusCode = 500
                 /\ resp.error = ErrorResumenPagos ]_vars

C18_Testigo ==
  /\ lectura.operacion = "getResumenPagosDia"
  /\ lectura.args = [usuarioId |-> 2, fecha |-> ""]
  /\ lectura.respuesta = RespuestaLectura(TRUE, 200, <<>>, "")
  /\ PagosElegibles(2, Hoy, 0) = {}
  /\ Registrado(1)

\* The operations that return groups.
OperacionesDeGrupos ==
  {"getResumenPagosDia", "getCorreosPendientesGeneral", "getResumenEnviosFecha"}

\* C19. Totals consistency: in every group returned by getResumenPagosDia,
\* getCorreosPendientesGeneral or getResumenEnviosFecha, totalPagos is the
\* number of the group's pagos and totalMonto the sum of their montos.
C19_TotalesConsistentes ==
  ( /\ lectura.operacion \in OperacionesDeGrupos
    /\ lectura.respuesta.success ) =>
    \A j \in 1..Len(lectura.respuesta.data) :
      LET g == lectura.respuesta.data[j]
      IN  /\ g.totalPagos = Len(g.pagos)
          /\ g.totalMonto = SumaMontos(g.pagos)

\* The pago's code, upper-cased, begins with BANCO-.
CodigoBancario(i) == startsWith(toUpperCase(CatalogoPagos[i].codigo), PrefijoBanco)

\* C20. Channel split: a pago read by an invocation is passed to the
\* registrar query, and linked, as bank-channel if and only if its code
\* begins with BANCO- when compared without regard to case; every other
\* pago, the one without code included, is passed and linked as card-channel.
C20_DivisionPorCanal ==
  /\ \A a \in Intentos :
       WebhookRespondido(a) =>
         /\ ArgumentosRegistrar(a).ids_pagos_bancario =
              { i \in Rango(rows[a]) : CodigoBancario(i) }
         /\ ArgumentosRegistrar(a).ids_pagos_tarjeta =
              { i \in Rango(rows[a]) : ~ CodigoBancario(i) }
  /\ \A d \in detalle_envio_correo :
       d.tipo = (IF CodigoBancario(d.pago_id) THEN "BANCARIO" ELSE "TARJETA")

C20_Testigo ==
  /\ Registrado(1)
  /\ rows[1] = <<4>>
  /\ CatalogoPagos[4].codigo = banco7
  /\ [pago_id |-> 4, envio_id |-> 1, tipo |-> "BANCARIO"] \in detalle_envio_correo

\* C20 as the specification states it: bank-channel if and only if the code
\* begins with the prefix BANCO- itself.
C20_PrefijoExacto ==
  /\ \A a \in Intentos :
       WebhookRespondido(a) =>
         ArgumentosRegistrar(a).ids_pagos_bancario =
           { i \in Rango(rows[a]) : startsWith(CatalogoPagos[i].codigo, PrefijoBanco) }
  /\ \A d \in detalle_envio_correo :
       d.tipo = "BANCARIO" <=> startsWith(CatalogoPagos[d.pago_id].codigo, PrefijoBanco)

\* The rows of the scope that the eligibility conditions select: those of the
\* operator that are PAGADO, active, of the date and without a claim link.
ElegiblesDelAlcance(usuarioId, fecha) ==
  { i \in pagos :
      /\ CatalogoPagos[i].usuario_id = usuarioId
      /\ CatalogoPagos[i].estado = "PAGADO"
      /\ CatalogoPagos[i].esta_activo
      /\ CatalogoPagos[i].fecha_pago = (IF fecha # "" THEN fecha ELSE Hoy)
      /\ ~ \E d \in detalle_envio_correo : d.pago_id = i }

\* C21. The pagos in the groups getResumenPagosDia returns are exactly those
\* of the operator that are PAGADO, active, of the scope date and without a
\* claim link, and the query of enviarCorreoProveedor for a provider reads
\* exactly those of them that are of that provider; esta_verificado plays no
\* part.
C21_SeleccionElegibles ==
  [][ /\ ( /\ lectura' # lectura
          /\ lectura'.operacion = "getResumenPagosDia"
          /\ lectura'.respuesta.success ) =>
          PagosEnGrupos(lectura'.respuesta.data) =
            ElegiblesDelAlcance(lectura'.args.usuarioId, lectura'.args.fecha)
      /\ \A a \in Intentos :
           (LeeFilas(a) /\ solicitud'[a].proveedorId # 0) =>
             Rango(rows'[a]) =
               { i \in ElegiblesDelAlcance(solicitud'[a].usuarioId, solicitud'[a].fecha) :
                   CatalogoPagos[i].proveedor_id = solicitud'[a].proveedorId } ]_vars

\* A summary that lists unverified pagos (2, 9) next to verified ones (1, 8),
\* and leaves out the claimed, the unpaid, the inactive and yesterday's.
C21_Testigo ==
  /\ lectura.operacion = "getResumenPagosDia"
  /\ lectura.args = [usuarioId |-> 1, fecha |-> ""]
  /\ lectura.respuesta.success
  /\ PagosEnGrupos(lectura.respuesta.data) = {1, 2, 8, 9}
  /\ pagos = 1..9
  /\ { d.pago_id : d \in detalle_envio_correo } = {3}
  /\ Rango(rows[1]) = {1, 2}
  /\ solicitud[1] = Solicitud(1, 1, Hoy)

RECURSIVE MontoDe(_)
\* The sum of the amounts of a set of pagos.
MontoDe(S) ==
  IF S = {} THEN 0
  ELSE LET i == CHOOSE x \in S : TRUE
       IN  CatalogoPagos[i].monto + MontoDe(S \ {i})

\* The text of an override with the white space around it removed.
SinEspaciosAlrededor(s) ==
  IF \A k \in 1..Len(s) : s[k] \in {" ", "\n"} THEN <<>>
  ELSE LET i == CHOOSE j \in 1..Len(s) :
                  s[j] \notin {" ", "\n"} /\ \A k \in 1..(j - 1) : s[k] \in {" ", "\n"}
           f == CHOOSE j \in 1..Len(s) :
                  s[j] \notin {" ", "\n"} /\ \A k \in (j + 1)..Len(s) : s[k] \in {" ", "\n"}
       IN  SubSeq(s, i, f)

\* The default subject and body of a payload.
AsuntoPorDefecto(info) ==
  [plantilla |-> "Confirmacion de pagos", proveedor |-> info.proveedor]

MensajePorDefecto(info, r) ==
  [plantilla |-> "Estimado proveedor", cantidad |-> Cardinality(Rango(r)),
   total |-> [entero |-> MontoDe(Rango(r)) \div 100,
              decimales |-> MontoDe(Rango(r)) % 100],
   fecha |-> info.fecha]

\* C22. In every payload, the subject (the body) is the override with the
\* white space around it removed when the override has a character that is
\* not white space; otherwise it is the default, built from the provider
\* name (from the number of pagos, their total with two decimals and the
\* scope date).
C22_TextoCompuesto ==
  \A a \in Intentos :
    llamadas[a] # <<>> =>
      LET info == llamadas[a][1].info_correo
          asunto == AsuntoDe(solicitud[a])
          mensaje == MensajeDe(solicitud[a])
      IN  /\ info.asunto =
               IF SinEspaciosAlrededor(asunto) # <<>>
                 THEN [texto |-> SinEspaciosAlrededor(asunto)]
                 ELSE AsuntoPorDefecto(info)
          /\ info.mensaje =
               IF SinEspaciosAlrededor(mensaje) # <<>>
                 THEN [texto |-> SinEspaciosAlrededor(mensaje)]
                 ELSE MensajePorDefecto(info, rows[a])

\* An override with white space around and inside its text was sent without
\* the former, next to a blank body replaced by the default.
C22_Testigo ==
  /\ pc[1] = "fin"
  /\ resultado[1].success
  /\ AsuntoDe(solicitud[1]) = <<" ", "H", " ", "i", "\n">>
  /\ MensajeDe(solicitud[1]) = <<"\n", " ">>
  /\ llamadas[1][1].info_correo.asunto = [texto |-> <<"H", " ", "i">>]
  /\ llamadas[1][1].info_correo.mensaje =
       [plantilla |-> "Estimado proveedor", cantidad |-> 2,
        total |-> [entero |-> 25, decimales |-> 50], fecha |-> Hoy]

\* C22 as stated: an override that is not blank after trimming is the
\* composed text character for character.
C22_TextoLiteral ==
  \A a \in Intentos :
    llamadas[a] # <<>> =>
      LET info == llamadas[a][1].info_correo
          asunto == AsuntoDe(solicitud[a])
          mensaje == MensajeDe(solicitud[a])
      IN  /\ info.asunto =
               IF SinEspaciosAlrededor(asunto) # <<>>
                 THEN [texto |-> asunto] ELSE AsuntoPorDefecto(info)
          /\ info.mensaje =
               IF SinEspaciosAlrededor(mensaje) # <<>>
                 THEN [texto |-> mensaje] ELSE MensajePorDefecto(info, rows[a])

\* C23. Order of the steps of an invocation: the webhook call is issued in
\* the step in which the eligibility query answered, for the rows it gave;
\* the store is written only by an invocation whose webhook call has
\* completed; and an invocation that has returned (404, a report, 500)
\* issues no webhook call and writes nothing more.
C23_OrdenDePasos ==
  [][ /\ \A a \in Intentos :
           /\ llamadas'[a] # llamadas[a] =>
                /\ pc[a] = "inicio"
                /\ rows[a] = <<>> /\ rows'[a] # <<>>
                /\ llamadas'[a] = <<webhookPayload(solicitud'[a], rows'[a])>>
           /\ pc'[a] = "registrando" =>
                /\ pc[a] \in {"enviando", "registrando"}
                /\ Len(llamadas[a]) = 1
           /\ pc[a] = "fin" =>
                /\ pc'[a] = "fin"
                /\ llamadas'[a] = llamadas[a]
                /\ rows'[a] = rows[a]
                /\ resultado'[a] = resultado[a]
      /\ (envios' # envios \/ detalle_envio_correo' # detalle_envio_correo) =>
           \E a \in Intentos :
             /\ pc[a] = "registrando" /\ pc'[a] = "fin"
             /\ Len(llamadas[a]) = 1
             /\ estadoEnvio[a] = "ERROR_WEBHOOK" \/ webhookResponseData[a] # SinRespuesta
             /\ \A b \in Intentos \ {a} : pc'[b] = pc[b] ]_vars

\* One invocation recorded its delivery after its call, the other ended with
\* no pagos, and both have returned.
C23_Testigo ==
  /\ pc[1] = "fin" /\ pc[2] = "fin"
  /\ resultado[2] = RespuestaSinPagos
  /\ resultado[1].success
  /\ llamadas[2] = <<>>
  /\ Len(llamadas[1]) = 1
  /\ PagosVinculados(resultado[1].envio) = Rango(rows[1])

\* C24. Every envio written: the pagos linked to it as TARJETA and those
\* linked as BANCARIO are disjoint, together they are the pagos the
\* invocation read, cantidad_pagos is their number and monto_total the sum
\* of their amounts.
C24_EnvioConsistente ==
  \A e \in envios :
    \E a \in Intentos :
      LET tarjeta == { d.pago_id : d \in { x \in detalle_envio_correo :
                         x.envio_id = e.id_envio /\ x.tipo = "TARJETA" } }
          bancario == { d.pago_id : d \in { x \in detalle_envio_correo :
                          x.envio_id = e.id_envio /\ x.tipo = "BANCARIO" } }
      IN  /\ Registrado(a) /\ resultado[a].envio = e.id_envio
          /\ tarjeta \cap bancario = {}
          /\ tarjeta \cup bancario = Rango(rows[a])
          /\ e.cantidad_pagos = Cardinality(tarjeta \cup bancario)
          /\ e.monto_total = MontoDe(tarjeta \cup bancario)

\* An envio of one bank-channel and one card-channel pago.
C24_Testigo ==
  \E e \in envios :
    /\ e.cantidad_pagos = 2
    /\ e.monto_total = 2550
    /\ { d \in detalle_envio_correo : d.envio_id = e.id_envio } =
         { [pago_id |-> 1, envio_id |-> e.id_envio, tipo |-> "BANCARIO"],
           [pago_id |-> 2, envio_id |-> e.id_envio, tipo |-> "TARJETA"] }

\* C29. An invocation whose eligibility query fails (store unreachable)
\* returns the 500 failure in that step: it has read no rows, issues no
\* webhook call and writes neither an envio nor a link, then or later.
C29_FalloDeLectura ==
  [][\A a \in Intentos :
       /\ (pc[a] = "inicio" /\ pc'[a] # "inicio" /\ rows'[a] = <<>>
            /\ resultado'[a] # RespuestaSinPagos) =>
            /\ pc'[a] = "fin"
            /\ resultado'[a] = Fallo(500, ErrorBaseDeDatos)
            /\ llamadas'[a] = <<>>
            /\ Almacen' = Almacen
       /\ (pc[a] = "fin" /\ rows[a] = <<>>) =>
            /\ llamadas'[a] = <<>>
            /\ resultado'[a] = resultado[a]
            /\ \A e \in envios' : e.id_envio # resultado'[a].envio ]_vars

\* The query of an invocation failed while pagos of its scope were eligible:
\* nothing was sent and nothing recorded.
C29_Testigo ==
  /\ pc[1] = "fin"
  /\ solicitud[1] = Solicitud(1, 1, Hoy)
  /\ rows[1] = <<>>
  /\ resultado[1] = RespuestaExcepcion
  /\ llamadas[1] = <<>>
  /\ PagosElegibles(1, Hoy, 1) = {1, 2}
  /\ envios = {} /\ detalle_envio_correo = {}
  /\ pc[2] = "inicio"

\* The rows of a summary read: the steps in which getResumenPagosDia
\* returned its groups.
ResumenLeido == 
  /\ lectura' # lectura
  /\ lectura'.operacion = "getResumenPagosDia"
  /\ lectura'.respuesta.success

\* The eligible pagos of the scope of the summary read in this step.
ElegiblesDelResumen ==
  ElegiblesDelAlcance(lectura'.args.usuarioId, lectura'.args.fecha)

\* C25. Grouping by provider: every group of a summary holds pagos of one
\* provider only, the one whose id and correo the group carries; every
\* provider with an eligible pago has exactly one group; and the pagos of a
\* group are in the order in which the query returned them.
C25_GruposPorProveedor ==
  [][ ResumenLeido =>
        LET g == lectura'.respuesta.data
        IN  /\ \A j \in 1..Len(g) :
                 /\ \A k \in 1..Len(g[j].pagos) :
                      CatalogoPagos[g[j].pagos[k].id].proveedor_id = g[j].id
                 /\ g[j].correoContacto = Proveedores[g[j].id].correo
            /\ \A p \in DOMAIN Proveedores :
                 (\E i \in ElegiblesDelResumen : CatalogoPagos[i].proveedor_id = p) =>
                   Cardinality({ j \in 1..Len(g) : g[j].id = p }) = 1
            /\ \E r \in OrdenadosPorNombre(ElegiblesDelResumen) :
                 \A j \in 1..Len(g) :
                   [k \in 1..Len(g[j].pagos) |-> g[j].pagos[k].id] =
                     SelectSeq(r, LAMBDA i : \E k \in 1..Len(g[j].pagos) :
                                               g[j].pagos[k].id = i) ]_vars

\* C26. The groups of a summary are in ascending order of the provider
\* name, and their color alternates by position: teal, brown, teal.
C26_OrdenYColor ==
  [][ ResumenLeido =>
        LET g == lectura'.respuesta.data
        IN  /\ \A j, k \in 1..Len(g) :
                 j < k => PosicionNombre(g[j].proveedorNombre)
                            < PosicionNombre(g[k].proveedorNombre)
            /\ \A j \in 1..Len(g) :
                 g[j].color = IF j % 2 = 1 THEN "teal" ELSE "brown" ]_vars

C26_Testigo ==
  /\ lectura.operacion = "getResumenPagosDia"
  /\ lectura.respuesta.success
  /\ Len(lectura.respuesta.data) = 3
  /\ [j \in 1..3 |-> lectura.respuesta.data[j].proveedorNombre] = <<"Alfa", "Beta", "Gama">>
  /\ [j \in 1..3 |-> lectura.respuesta.data[j].color] = <<"teal", "brown", "teal">>

\* C27. Scope confinement, whatever the provider id passed: the pagos an
\* invocation reads, notifies and links are of its operator, of the provider
\* named by its provider id and of its scope date, and the notification is
\* addressed to that provider.
C27_ConfinadoAlAlcance ==
  \A a \in Intentos :
    rows[a] # <<>> =>
      /\ \A i \in Rango(rows[a]) :
           /\ CatalogoPagos[i].usuario_id = solicitud[a].usuarioId
           /\ CatalogoPagos[i].fecha_pago = fechaResumen(solicitud[a])
           /\ CatalogoPagos[i].proveedor_id = solicitud[a].proveedorId
      /\ \E p \in DOMAIN Proveedores :
           /\ p = solicitud[a].proveedorId
           /\ llamadas[a][1].info_correo.correo = Proveedores[p].correo

\* C28. The summary and the dispatch agree: the pagos the query of
\* enviarCorreoProveedor reads for a provider are the pagos of the group
\* getResumenPagosDia returns for that provider in the same store and scope,
\* and it reads none exactly when the summary has no group for the provider.
C28_ResumenYEnvioCoinciden ==
  [][\A a \in Intentos :
       LeeFilas(a) =>
         \A g \in getResumenPagosDia(solicitud'[a].usuarioId, solicitud'[a].fecha) :
           LET deProveedor == { j \in 1..Len(g) : g[j].id = solicitud'[a].proveedorId }
           IN  /\ rows'[a] = <<>> <=> deProveedor = {}
               /\ \A j \in deProveedor :
                    { g[j].pagos[k].id : k \in 1..Len(g[j].pagos) } = Rango(rows'[a]) ]_vars

\* C30. getHistorialEnvios returns the envios of the operator newest first,
\* without the first offset of them, and at most the smaller of limit and
\* the function's maximum; a caller that gives no limit gets limit 50, one
\* that gives no offset gets offset 0.
C30_HistorialPaginado ==
  [][ ( /\ lectura' # lectura
        /\ lectura'.operacion = "getHistorialEnvios"
        /\ lectura'.respuesta.success ) =>
        LET data == lectura'.respuesta.data
            limit == IF lectura'.args.limit = SinArgumento THEN 50 ELSE lectura'.args.limit
            offset == IF lectura'.args.offset = SinArgumento THEN 0 ELSE lectura'.args.offset
            propios == { e.id_envio : e \in { x \in envios :
                           x.usuario_envio_id = lectura'.args.usuarioId } }
            quedan == IF Cardinality(propios) > offset
                        THEN Cardinality(propios) - offset ELSE 0
            tope == IF limit < MaxLimiteHistorial THEN limit ELSE MaxLimiteHistorial
        IN  /\ Len(data) = IF quedan < tope THEN quedan ELSE tope
            /\ \A k \in 1..Len(data) :
                 /\ data[k] \in propios
                 /\ Cardinality({ i \in propios : i > data[k] }) = offset + k - 1 ]_vars

\* The operator has three envios; a call without arguments returns the two
\* newest: offset 0, and the function's maximum below the limit of 50.
C30_Testigo ==
  /\ Cardinality({ e \in envios : e.usuario_envio_id = 1 }) = 3
  /\ lectura.operacion = "getHistorialEnvios"
  /\ lectura.args = [usuarioId |-> 1, limit |-> SinArgumento, offset |-> SinArgumento]
  /\ lectura.respuesta = RespuestaLectura(TRUE, 200, <<3, 2>>, "")

\* C31. Summaries and a dispatch do not wait for each other: while an
\* invocation is in flight a summary can be answered, and whatever
\* summaries were answered the invocation can take its next step; a summary
\* that runs once the registrar has committed lists no pago that was
\* consumed.
C31_ResumenSinBloqueo ==
  /\ EnCurso(1) => ENABLED ResumenPagosDia(1, "")
  /\ pc[1] = "inicio" => ENABLED (\E s \in Solicitudes : Consultar(1, s))
  /\ pc[1] = "enviando" =>
       ENABLED (\E resp \in RespuestasWebhook : RespuestaWebhook(1, resp))
  /\ pc[1] = "registrando" => ENABLED RegistrarOk(1)
  /\ \A f \in FechasLectura :
       \A g \in getResumenPagosDia(1, f) :
         PagosEnGrupos(g) \cap { d.pago_id : d \in detalle_envio_correo } = {}

\* A summary answered after the invocation recorded its envio of pagos 1
\* and 2: it lists pago 3 only.
C31_Testigo ==
  /\ Registrado(1)
  /\ Rango(rows[1]) = {1, 2}
  /\ PagosVinculados(resultado[1].envio) = {1, 2}
  /\ lectura.operacion = "getResumenPagosDia"
  /\ lectura.respuesta.success
  /\ PagosEnGrupos(lectura.respuesta.data) = {3}

\* C32. What is sent is what is recorded: for every invocation whose registrar
\* committed an envio, each payload it posted carries the cantidad_pagos,
\* monto_total, asunto, mensaje and fecha that the envio row holds, and lists
\* one info_pagos entry per pago linked to the envio.
C32_EnviadoIgualRegistrado ==
  \A a \in Intentos :
    Registrado(a) =>
      /\ Len(llamadas[a]) >= 1
      /\ \E e \in envios :
           /\ e.id_envio = resultado[a].envio
           /\ \A j \in 1..Len(llamadas[a]) :
                LET info == llamadas[a][j].info_correo IN
                /\ info.cantidad_pagos = e.cantidad_pagos
                /\ info.monto_total = e.monto_total
                /\ info.asunto = e.asunto_correo
                /\ info.mensaje = e.cuerpo_correo
                /\ info.fecha = e.fecha_resumen
                /\ Len(llamadas[a][j].info_pagos) =
                     Cardinality(PagosVinculados(e.id_envio))

\* An invocation with a padded subject override recorded its envio of pagos
\* 1 and 2: the trimmed subject is in the payload and in the row.
C32_Testigo ==
  /\ Registrado(1)
  /\ AsuntoDe(solicitud[1]) = <<" ", "H", " ", "i", "\n">>
  /\ MensajeDe(solicitud[1]) = <<>>
  /\ PagosVinculados(resultado[1].envio) = {1, 2}
  /\ Len(llamadas[1]) = 1
  /\ llamadas[1][1].info_correo.asunto = [texto |-> <<"H", " ", "i">>]
  /\ \E e \in envios : e.asunto_correo = [texto |-> <<"H", " ", "i">>]

\* C33. While a send is in flight another onSendEmail issues no second
\* request: at most one POST /enviar for a provider is outstanding at any
\* time.
C33_UnEnvioEnVuelo ==
  \A r1, r2 \in EnVuelo("enviar") :
    r1.args.proveedor_id = r2.args.proveedor_id => r1 = r2

\* C34. The send of the page consumes the pagos of the group the operator
\* selected: the pagos linked to the envio that a POST /enviar recorded are
\* the pagos of selectedGroup as it was when onSendEmail issued the request.
C34_ConsumeLoPrevisto ==
  \A r \in EnVuelo("enviar") :
    Registrado(r.intento) =>
      PagosVinculados(resultado[r.intento].envio) =
        { q.id : q \in Rango(r.grupo.pagos) }

\* The requests of the given operation that the step issues.
Emitidas(op) ==
  { q \in red'.enVuelo : q.operacion = op /\ q.id >= red.siguiente }

\* The response of request r is delivered in the step.
Entregada(r) == r.id \notin { q.id : q \in red'.enVuelo }

\* C35. When the success response of a POST /enviar is delivered, the step
\* leaves isSending false, the compose modal closed and selectedGroup null
\* and issues one request for each of the three lists; and when the response
\* to the pending-list request issued by that step is delivered, no pago
\* linked to the envio of that send is in pendingGroups.
C35_ExitoRecarga ==
  [][ \A r \in red.enVuelo :
        /\ (r.operacion = "enviar" /\ Entregada(r) /\ resultado[r.intento].success) =>
             /\ ~ ui'.isSending
             /\ ~ ui'.showComposeModal
             /\ ui'.selectedGroup = SinGrupo
             /\ \A op \in {"resumen", "enviados-resumen", "historial"} :
                  \E q \in Emitidas(op) : q.causa = r.intento
        /\ (r.operacion = "resumen" /\ Entregada(r) /\ r.causa # 0) =>
             PagosEnGrupos(ui'.pendingGroups)
               \cap PagosVinculados(resultado[r.causa].envio) = {}
    ]_vars

\* The send of the group of provider 1 succeeded and its three reloads are
\* complete: pagos 1 and 2 are linked, the pending list holds pago 3 only and
\* the history holds the envio.
C35_Testigo ==
  /\ Registrado(1)
  /\ PagosVinculados(resultado[1].envio) = {1, 2}
  /\ red.enVuelo = {}
  /\ red.siguiente = 8
  /\ ~ ui.isSending
  /\ ~ ui.showComposeModal
  /\ ui.selectedGroup = SinGrupo
  /\ PagosEnGrupos(ui.pendingGroups) = {3}
  /\ Len(ui.historialEnvios) = 1

\* C36. When the response of a POST /enviar that failed is delivered, as a
\* response with success false or as an HTTP error, the step leaves
\* isSending false and the error toast shown, leaves selectedGroup, the
\* modal's open state, the compose form and the three lists as they were,
\* and issues no request.
C36_FalloSinCambios ==
  [][ \A r \in red.enVuelo :
        (r.operacion = "enviar" /\ Entregada(r) /\ ~ resultado[r.intento].success) =>
          /\ ~ ui'.isSending
          /\ ui'.showErrorToast
          /\ ui'.selectedGroup = ui.selectedGroup
          /\ ui'.showComposeModal = ui.showComposeModal
          /\ ui'.composeForm = ui.composeForm
          /\ ui'.pendingGroups = ui.pendingGroups
          /\ ui'.sentGroupsToday = ui.sentGroupsToday
          /\ ui'.historialEnvios = ui.historialEnvios
          /\ red'.enVuelo = red.enVuelo \ {r}
          /\ red'.siguiente = red.siguiente
    ]_vars

\* The send of the group of provider 1 failed and its response was
\* delivered: the toast is shown, the modal is still open on the group and
\* the pending list still holds pagos 1, 2 and 3.
C36_Testigo ==
  /\ pc[1] = "fin"
  /\ ~ resultado[1].success
  /\ EnVuelo("enviar") = {}
  /\ red.envios = 1
  /\ ~ ui.isSending
  /\ ui.showErrorToast
  /\ ui.showComposeModal
  /\ ui.selectedGroup # SinGrupo
  /\ ui.selectedGroup.id = 1
  /\ ui.composeForm.asunto = AsuntoModal
  /\ PagosEnGrupos(ui.pendingGroups) = {1, 2, 3}
  /\ red.siguiente = 5

\* C37. With several GET /resumen outstanding, isLoading is true exactly
\* while one of them is outstanding, and once none is, pendingGroups holds
\* the list of the response to the request issued last.
C37_UltimaRespuesta ==
  ui.iniciado =>
    /\ ui.isLoading <=> EnVuelo("resumen") # {}
    /\ EnVuelo("resumen") = {} => ui.pendingGroups = red.masReciente.datos

\* C38. After any sequence of onFileSelected and removeFile calls the
\* invoices card holds at most 5 files and the bank-doc card at most 1, every
\* file held is a PDF by its type or by its name ending in .pdf in any case,
\* and a call with a selection that has no PDF leaves the files of both
\* cards as they were.
C38_LimitesYPdf ==
  /\ [](/\ Len(doc.files["invoices"]) <= 5
        /\ Len(doc.files["bank-doc"]) <= 1
        /\ \A c \in Tarjetas : \A k \in 1..Len(doc.files[c]) :
             \/ doc.files[c][k].type \in {"application/pdf", "application/x-pdf"}
             \/ doc.files[c][k].name \in
                  { <<"a", ".", "p", "d", "f">>, <<"b", ".", "P", "D", "F">> })
  /\ [][ (/\ doc'.ultimo.op = "onFileSelected"
          /\ \A k \in 1..Len(doc'.ultimo.files) :
               doc'.ultimo.files[k] \in {ArchivoD, ArchivoE})
         => doc'.files = doc.files ]_vars

\* The invoices card is full with PDFs of the three kinds, the bank-doc card
\* holds its one file, and the last call, a selection of two files that are
\* no PDF, added nothing.
C38_Testigo ==
  /\ Len(doc.files["invoices"]) = 5
  /\ { doc.files["invoices"][k] : k \in 1..5 } = {ArchivoA, ArchivoB, ArchivoC}
  /\ doc.files["invoices"][5] = ArchivoB
  /\ doc.files["bank-doc"] = <<ArchivoB>>
  /\ doc.ultimo = [op |-> "onFileSelected", files |-> <<ArchivoD, ArchivoE>>]
  /\ doc.scanError = SoloPdf

\* C39. Every onScanCard that sets isScanning is followed by a state in which
\* isScanning is false, whichever way the scan ends; the callback of a scan
\* response leaves isScanSuccess true exactly when the response has code 200
\* and estado true and leaves isScanning false, as does the error callback
\* with isScanSuccess false; onScanCard resets isScanSuccess; and no other
\* step sets isScanSuccess.
C39_EscaneoTermina ==
  /\ [](doc.isScanning => <>(~ doc.isScanning))
  /\ [](doc.ultimo.op = "onScanCard" => ~ doc.isScanSuccess)
  /\ [][ /\ (doc'.ultimo # doc.ultimo /\ doc'.ultimo.op = "next") =>
              /\ ~ doc'.isScanning
              /\ doc'.isScanSuccess <=>
                   (doc'.ultimo.response.code = 200
                    /\ doc'.ultimo.response.estado = "true")
         /\ (doc'.ultimo # doc.ultimo /\ doc'.ultimo.op \in {"error", "onerror"}) =>
              /\ ~ doc'.isScanning
              /\ doc'.isScanSuccess = doc.isScanSuccess \/ ~ doc'.isScanSuccess
         /\ (doc'.escaneos # doc.escaneos) => (doc'.isScanning /\ ~ doc'.isScanSuccess)
         /\ (doc'.isScanSuccess /\ ~ doc.isScanSuccess) =>
              /\ doc'.ultimo.op = "next"
              /\ doc'.ultimo.response = [code |-> 200, estado |-> "true"]
     ]_vars

\* The two files of the invoices card were read and the service answered with
\* code 200 and estado true: the scan is over and isScanSuccess is true.
C39_Testigo ==
  /\ doc.escaneos = 1
  /\ doc.lecturas = {}
  /\ doc.ultimo = [op |-> "next", n |-> 1,
                   response |-> [code |-> 200, estado |-> "true"]]
  /\ ~ doc.isScanning
  /\ doc.isScanSuccess
  /\ doc.activeScanCardId = "invoices"
  /\ doc.scanMessage = "Documentos enviados correctamente."
====
